---------------------------- MODULE Spec2Model ----------------------------
(***************************************************************************)
(* Feature store, feature extraction pipeline and benefit calculator of    *)
(* the battery-simulation repository, as state machines.                   *)
(*                                                                         *)
(* Conventions                                                             *)
(*   - an optional value (SQL NULL, Python None, float NaN) is <<>>, a     *)
(*     present value v is <<v>>;                                           *)
(*   - a column name is the tuple of the pieces the code's f-strings join: *)
(*     "target" is <<"target">>, f"target_{k}" is <<"target_", k>>,        *)
(*     f"{extractor.name}__{column}_{stat}" is <<"ts","__",column,"_",s>>; *)
(*   - a text value that the code inspects character by character (a       *)
(*     configuration name) is a tuple of one-character strings.            *)
(***************************************************************************)
EXTENDS Integers, Sequences, FiniteSets, TLC

\* ------------------------------------------------------------------ bounds
MaxConfigs == 2
MaxBatchSize == 2
MaxBatchRows == 2
MaxValue == 2
MaxKpiValue == 1
MaxKpiRows == 1
MaxBenefitConfigs == 2
MaxStoreRows == 3

\* ----------------------------------------------------------------- helpers
None == <<>>

Some(v) == <<v>>

Range(s) == {s[i] : i \in 1..Len(s)}

RECURSIVE SetToSeqs(_)
SetToSeqs(S) ==
    IF S = {} THEN {<<>>}
    ELSE UNION {{<<x>> \o t : t \in SetToSeqs(S \ {x})} : x \in S}

Min(S) == CHOOSE x \in S : \A y \in S : x <= y

\* ------------------------------------------------------------ column names
Col(s) == <<s>>

TargetCol(kpi_name) == <<"target_", kpi_name>>

TsCol(key) == <<"ts", "__">> \o key

\* str.startswith on a name kept as its joined pieces
StartsWith(c, prefix) == Len(c) > 0 /\ c[1] = prefix

DIRECT_INPUT_NAMES ==
    << "list_battery_max_state", "list_battery_usability",
       "list_battery_usable_max_state", "list_battery_efficiency",
       "list_battery_num_annual_cycles",
       "list_battery_proportion_hourly_max_load",
       "pv_annual_total", "pv_consumed_percentage" >>

INDIRECT_INPUTS_ENABLED == FALSE

INDIRECT_INPUT_NAMES == <<>>

KPI_TARGETS ==
    << "peak_shaving_benefit", "energy_procurement_optimization",
       "trading_revenue" >>

\* The load-profile column specs: the two configured columns, with the
\* integer-valued statistics "max" and "sum" of the configured list.
TIMESERIES_COLUMN_SPECS == << "grid_load_kwh", "consumption_kwh" >>

TIMESERIES_STATS == << "max", "sum" >>

TIMESERIES_DF_FEATURE_NAMES == << "self_consumption_ratio" >>

\* Python's sorted() on the column names of the model: code-point order.
AllColsSorted ==
    << Col("client_name"), Col("config_id"), Col("config_name"),
       Col("list_battery_efficiency"), Col("list_battery_max_state"),
       Col("list_battery_num_annual_cycles"),
       Col("list_battery_proportion_hourly_max_load"),
       Col("list_battery_usability"), Col("list_battery_usable_max_state"),
       Col("pv_annual_total"), Col("pv_consumed_percentage"),
       Col("run_name"), Col("target"),
       TargetCol("energy_procurement_optimization"),
       TargetCol("peak_shaving_benefit"), TargetCol("trading_revenue"),
       TsCol(<<"consumption_kwh", "_", "max">>),
       TsCol(<<"consumption_kwh", "_", "sum">>),
       TsCol(<<"grid_load_kwh", "_", "max">>),
       TsCol(<<"grid_load_kwh", "_", "sum">>),
       TsCol(<<"self_consumption_ratio">>) >>

sorted(cols) == SelectSeq(AllColsSorted, LAMBDA c : c \in Range(cols))

\* -------------------------------------------------------------- DataFrames
\* A dict is a sequence of <<key, value>> pairs in insertion order; a
\* DataFrame is [cols: ordered column names, rows: sequence of functions
\* from the columns to cells].
DictKeys(d) == [i \in 1..Len(d) |-> d[i][1]]

DictGet(d, k) ==
    IF \E i \in 1..Len(d) : d[i][1] = k
    THEN (CHOOSE p \in Range(d) : p[1] = k)[2]
    ELSE None

\* dict.update / d[k] = v : overwrite in place, else append (DictUpdate is
\* the result of setting the items of e in order: the keys of d keep their
\* place and take the last value e gives them, the new keys follow in the
\* order of their first occurrence)
DictSet(d, k, v) ==
    IF \E i \in 1..Len(d) : d[i][1] = k
    THEN [i \in 1..Len(d) |-> IF d[i][1] = k THEN <<k, v>> ELSE d[i]]
    ELSE Append(d, <<k, v>>)

DictUpdate(d, e) ==
    LET Last(k) == e[CHOOSE i \in 1..Len(e) :
                        /\ e[i][1] = k
                        /\ \A j \in (i + 1)..Len(e) : e[j][1] # k][2]
        added == SelectSeq([i \in 1..Len(e) |-> i],
                           LAMBDA i : /\ \A n \in 1..Len(d) : d[n][1] # e[i][1]
                                      /\ \A j \in 1..(i - 1) : e[j][1] # e[i][1])
    IN [n \in 1..Len(d) |->
          IF \E i \in 1..Len(e) : e[i][1] = d[n][1]
          THEN << d[n][1], Last(d[n][1]) >> ELSE d[n]]
       \o [n \in 1..Len(added) |-> << e[added[n]][1], Last(e[added[n]][1]) >>]

EmptyDF == [cols |-> <<>>, rows |-> <<>>]

DFEmpty(df) == Len(df.cols) = 0 \/ Len(df.rows) = 0

UnionCols(cols, more) ==
    LET added == SelectSeq([i \in 1..Len(more) |-> i],
                           LAMBDA i : /\ more[i] \notin Range(cols)
                                      /\ \A j \in 1..(i - 1) : more[j] # more[i])
    IN cols \o [n \in 1..Len(added) |-> more[added[n]]]

RECURSIVE RecordCols(_, _)
RecordCols(cols, records) ==
    IF records = <<>> THEN cols
    ELSE RecordCols(UnionCols(cols, DictKeys(Head(records))), Tail(records))

\* pd.DataFrame(list of dicts): the union of the keys, NaN where a dict has none
DataFrame(records) ==
    LET cols == RecordCols(<<>>, records)
    IN [cols |-> cols,
        rows |-> [i \in 1..Len(records) |->
                    [c \in Range(cols) |-> DictGet(records[i], c)]]]

Reindex(row, cols) ==
    [c \in Range(cols) |-> IF c \in DOMAIN row THEN row[c] ELSE None]

\* pd.concat([a, b], ignore_index=True)
Concat(a, b) ==
    LET cols == UnionCols(a.cols, b.cols)
    IN [cols |-> cols,
        rows |-> [i \in 1..Len(a.rows) |-> Reindex(a.rows[i], cols)]
                 \o [i \in 1..Len(b.rows) |-> Reindex(b.rows[i], cols)]]

ColumnValues(df, c) == {df.rows[i][c] : i \in 1..Len(df.rows)}

HasCol(df, c) == c \in Range(df.cols)

\* a variant of DropIds that drops nothing
KeepRows(existing, new) == existing

\* a variant of DropIds with the mask the other way round
KeepIds(existing, new) ==
    [cols |-> existing.cols,
     rows |-> SelectSeq(existing.rows,
                LAMBDA r : r[Col("config_id")] \in
                           ColumnValues(new, Col("config_id")))]

\* existing[~existing["config_id"].isin(new["config_id"])]
DropIds(existing, new) ==
    [cols |-> existing.cols,
     rows |-> SelectSeq(existing.rows,
                LAMBDA r : r[Col("config_id")] \notin
                           ColumnValues(new, Col("config_id")))]


\* ------------------------------------------------------------------- state
VARIABLES
    clients,           \* clients table: client_id -> client_name
    runs,              \* runs table: run_id -> [client_id, run_name]
    battery_configs,   \* battery_configs table: config_id -> row
    kpi_summary,       \* kpi_summary table: set of rows, key (config_id, kpi_name)
    features_file,     \* feature_matrix.parquet
    processed_file,    \* processed_configs.json
    metadata_file,     \* metadata.json
    list_file,         \* feature_list.txt
    pc,                \* position of the single (synchronous) process
    run,               \* locals of FeatureExtractionPipeline.run
    new_features,      \* argument of the append_features call in progress
    last_run,          \* the last run that returned, while nothing changed since
    ret,               \* what the most recent completed call returned
    models,            \* ModelRegistry.models of the registry object in use
    registry_file,     \* registry.json
    model_files,       \* the model files of the registry directory, by path
    training           \* locals of train_all_models

vars == << clients, runs, battery_configs, kpi_summary, features_file,
           processed_file, metadata_file, list_file, pc, run, new_features,
           last_run, ret, models, registry_file, model_files,
           training >>

ml_vars == << models, registry_file, model_files, training >>

entity_vars == << clients, runs, battery_configs, kpi_summary >>

store_vars == << features_file, processed_file, metadata_file, list_file >>

\* ------------------------------------------------------------ Entity Store
ConfigIds == 1..Len(battery_configs)

ClientNameOf(config_id) ==
    clients[runs[battery_configs[config_id].run_id].client_id]

RunNameOf(config_id) == runs[battery_configs[config_id].run_id].run_name

\* dict(zip(kpis['kpi_name'], kpis['kpi_value'])) for one config
ConfigKpis(config_id) == {k \in kpi_summary : k.config_id = config_id}

KpiGet(config_id, kpi_name) ==
    IF \E k \in ConfigKpis(config_id) : k.kpi_name = kpi_name
    THEN (CHOOSE k \in ConfigKpis(config_id) : k.kpi_name = kpi_name).kpi_value
    ELSE None

\* a plain INSERT, with no conflict target
InsertKpiRow(table, config_id, kpi_name, kpi_value, kpi_unit) ==
    table \cup {[config_id |-> config_id, kpi_name |-> kpi_name,
                 kpi_value |-> kpi_value, kpi_unit |-> kpi_unit]}

\* INSERT ... ON CONFLICT (config_id, kpi_name) DO UPDATE SET value, unit
UpsertKpiRow(table, config_id, kpi_name, kpi_value, kpi_unit) ==
    {k \in table : ~(k.config_id = config_id /\ k.kpi_name = kpi_name)}
    \cup {[config_id |-> config_id, kpi_name |-> kpi_name,
           kpi_value |-> kpi_value, kpi_unit |-> kpi_unit]}

\* A cell of the value column of a KPI file is empty (NaN), a number
\* << v >>, or a string << "str", parsed >> where parsed is what float()
\* makes of it, << >> if it raises or the string is one of those skipped.
\* The value to store, << >> if the row is skipped.
ImportValue(raw_value) ==
    IF Len(raw_value) = 2 THEN raw_value[2] ELSE raw_value

\* import_kpis_from_csv, one row of the file
ImportKpiRow(table, config_id, row) ==
    IF row.kpi_name = << >> \/ ImportValue(row.raw_value) = << >>
    THEN table
    ELSE UpsertKpiRow(table, config_id, row.kpi_name[1],
                      ImportValue(row.raw_value), row.kpi_unit)

RECURSIVE ImportKpiRows(_, _, _)
ImportKpiRows(table, config_id, rows) ==
    IF rows = << >> THEN table
    ELSE ImportKpiRows(ImportKpiRow(table, config_id, Head(rows)), config_id,
                       Tail(rows))

\* BatteryDatabase.import_kpis_from_csv: kpi_file is << >> if the file is
\* missing or unreadable, else << rows >>
import_kpis_from_csv(table, config_id, kpi_file) ==
    IF kpi_file = << >> THEN table
    ELSE ImportKpiRows(table, config_id, kpi_file[1])

\* an insert that overwrites the row of the same natural key
ReplaceConfig(table, row) ==
    IF \E i \in 1..Len(table) :
          table[i].run_id = row.run_id /\ table[i].config_name = row.config_name
    THEN [i \in 1..Len(table) |->
            IF table[i].run_id = row.run_id
               /\ table[i].config_name = row.config_name
            THEN row ELSE table[i]]
    ELSE Append(table, row)

\* INSERT INTO battery_configs, rejected by UNIQUE(run_id, config_name)
InsertConfig(table, row) ==
    IF \E i \in 1..Len(table) :
          table[i].run_id = row.run_id /\ table[i].config_name = row.config_name
    THEN table
    ELSE Append(table, row)

\* ------------------------------------------------------- timeseries files
\* The files under data_root: a.csv holds one signal column, gone.csv is
\* referenced by a configuration but does not exist (or cannot be read).
EmptyTs == [cols |-> <<>>, data |-> <<>>]

TsPaths == {None, Some("gone.csv"), Some("a.csv")}

FileSystem(path) ==
    IF path = "a.csv"
    THEN Some([cols |-> <<"grid_load_kwh">>,
               data |-> [c \in {"grid_load_kwh"} |-> <<1, 3>>]])
    ELSE None

\* a variant of load_timeseries that reads a file that exists instead
LoadSomeTimeseries(timeseries_file_path) ==
    IF timeseries_file_path = None THEN EmptyTs
    ELSE FileSystem("a.csv")[1]

load_timeseries(timeseries_file_path) ==
    IF timeseries_file_path = None THEN EmptyTs
    ELSE IF FileSystem(timeseries_file_path[1]) = None THEN EmptyTs
    ELSE FileSystem(timeseries_file_path[1])[1]

TsEmpty(ts_df) ==
    Len(ts_df.cols) = 0 \/ \A c \in Range(ts_df.cols) : Len(ts_df.data[c]) = 0

RECURSIVE SeqSum(_)
SeqSum(s) == IF s = <<>> THEN 0 ELSE Head(s) + SeqSum(Tail(s))

SeqMax(s) == CHOOSE x \in Range(s) : \A y \in Range(s) : y <= x

STAT_FUNCTIONS(stat, series) ==
    IF stat = "max" THEN SeqMax(series) ELSE SeqSum(series)

extract_column_features(ts_df, column) ==
    IF column \notin Range(ts_df.cols) THEN <<>>
    ELSE IF Len(ts_df.data[column]) = 0 THEN <<>>
    ELSE [i \in 1..Len(TIMESERIES_STATS) |->
            << <<column, "_", TIMESERIES_STATS[i]>>,
               Some(STAT_FUNCTIONS(TIMESERIES_STATS[i], ts_df.data[column])) >>]

_calc_self_consumption(ts_df) ==
    IF "generation_kwh" \notin Range(ts_df.cols)
       \/ "grid_export_kwh" \notin Range(ts_df.cols)
    THEN None
    ELSE IF SeqSum(ts_df.data["generation_kwh"]) > 0
         THEN Some(<< SeqSum(ts_df.data["generation_kwh"])
                        - SeqSum(ts_df.data["grid_export_kwh"]),
                      SeqSum(ts_df.data["generation_kwh"]) >>)
         ELSE None

RECURSIVE ColumnFeatures(_, _)
ColumnFeatures(ts_df, columns) ==
    IF columns = <<>> THEN <<>>
    ELSE DictUpdate(extract_column_features(ts_df, Head(columns)),
                    ColumnFeatures(ts_df, Tail(columns)))

extract_all_from_config(ts_df) ==
    DictUpdate(ColumnFeatures(ts_df, TIMESERIES_COLUMN_SPECS),
               [i \in 1..Len(TIMESERIES_DF_FEATURE_NAMES) |->
                  << <<TIMESERIES_DF_FEATURE_NAMES[i]>>,
                     _calc_self_consumption(ts_df) >>])

\* FeatureExtractorRegistry.extract_all: keys prefixed with the extractor name
extract_all(ts_df) ==
    LET feats == extract_all_from_config(ts_df)
    IN [i \in 1..Len(feats) |-> << TsCol(feats[i][1]), feats[i][2] >>]

ts_extractors == << "ts" >>

\* The registries by name, and the functions on a series that the specs
\* below use (STAT_FUNCTIONS above gives max and sum).
STAT_FUNCTION_NAMES ==
    { "mean", "std", "min", "max", "sum", "median", "var", "skew", "kurtosis" }

CUSTOM_COLUMN_AGGREGATION_NAMES ==
    { "peak_to_mean", "cv", "iqr", "skewness", "time_below_20pct",
      "time_above_80pct", "cycles_equivalent", "range", "charge_energy",
      "discharge_energy", "reversals", "utilization", "peak_to_average",
      "export_ratio", "capacity_factor", "zero_generation_ratio",
      "price_spread", "price_volatility" }

CUSTOM_DF_FEATURE_NAMES ==
    { "self_consumption_ratio", "load_pv_correlation",
      "temporal__peak_load_ratio", "temporal__weekend_load_ratio",
      "temporal__summer_winter_ratio" }

SeqMin(s) == CHOOSE x \in Range(s) : \A y \in Range(s) : x <= y

\* A float that is no whole number of the model: << kind, a, b >> is a / b
\* ("ratio"), the square root of a / b ("sqrt") or infinity ("inf"); the int 0
\* of the guards is << "int", 0, 1 >>.
Zero == << "int", 0, 1 >>

\* s.mean() > 0: the mean of an empty series is NaN, which compares False
MeanPositive(series) == series # << >> /\ SeqSum(series) > 0

\* s.max() / s.mean(), as max * n / sum
MaxOverMean(series) ==
    IF series = << >> THEN None
    ELSE IF SeqSum(series) = 0
         THEN IF SeqMax(series) = 0 THEN None ELSE Some(<< "inf", 1, 0 >>)
         ELSE Some(<< "ratio", SeqMax(series) * Len(series), SeqSum(series) >>)

\* s.std() / s.mean(): std is NaN below two values; its square over the
\* square of the mean is sum((n*x - S)^2) / ((n - 1) * S^2)
StdOverMean(series) ==
    LET n == Len(series)
        S == SeqSum(series)
        dev == SeqSum([i \in 1..n |-> (n * series[i] - S) * (n * series[i] - S)])
    IN IF n < 2 THEN None
       ELSE IF S = 0 THEN IF dev = 0 THEN None ELSE Some(<< "inf", 1, 0 >>)
       ELSE Some(<< "sqrt", dev, (n - 1) * S * S >>)

\* the registry without its guards on the mean
UnguardedAggregations(name, series) ==
    IF name \in { "peak_to_mean", "peak_to_average" } THEN MaxOverMean(series)
    ELSE IF name \in { "cv", "price_volatility" } THEN StdOverMean(series)
    ELSE IF series = << >> THEN None
    ELSE Some(SeqMax(series) - SeqMin(series))

\* "peak_to_mean", "peak_to_average", "cv", "price_volatility", and "range",
\* "price_spread" (s.max() - s.min(), NaN on an empty series); None is NaN
CUSTOM_COLUMN_AGGREGATIONS(name, series) ==
    IF name \in { "peak_to_mean", "peak_to_average" }
    THEN IF MeanPositive(series) THEN MaxOverMean(series) ELSE Some(Zero)
    ELSE IF name \in { "cv", "price_volatility" }
    THEN IF MeanPositive(series) THEN StdOverMean(series) ELSE Some(Zero)
    ELSE IF series = << >> THEN None
    ELSE Some(SeqMax(series) - SeqMin(series))

\* np.percentile(series, p) for p = 0 and p = 100
Percentile(series, p) == IF p = 0 THEN SeqMin(series) ELSE SeqMax(series)

\* "self_consumption_ratio"
CUSTOM_DF_FEATURES(name, df) == _calc_self_consumption(df)

\* the items extract_column_features assigns for a spec, in order; on an
\* empty series the statistics and percentiles raise or yield NaN
SpecItems(series, column, spec) ==
    LET stats == SelectSeq(spec.stats, LAMBDA n : n \in STAT_FUNCTION_NAMES)
        custom == SelectSeq(spec.custom,
                            LAMBDA n : n \in CUSTOM_COLUMN_AGGREGATION_NAMES)
    IN [i \in 1..Len(stats) |->
          << << column, "_", stats[i] >>,
             IF series = << >> THEN None
             ELSE Some(STAT_FUNCTIONS(stats[i], series)) >>]
       \o [i \in 1..Len(spec.percentiles) |->
             << << column, "_p", spec.percentiles[i] >>,
                IF series = << >> THEN None
                ELSE Some(Percentile(series, spec.percentiles[i])) >>]
       \o [i \in 1..Len(custom) |->
             << << column, "_", custom[i] >>,
                CUSTOM_COLUMN_AGGREGATIONS(custom[i], series) >>]

\* extract_column_features(df, column, spec) for any spec
ExtractColumnFeatures(df, column, spec) ==
    IF column \notin Range(df.cols) THEN << >>
    ELSE IF Len(df.data[column]) = 0 /\ spec.skip_if_empty THEN << >>
    ELSE DictUpdate(<< >>, SpecItems(df.data[column], column, spec))

\* the loop of extract_all_from_config over column_specs.items()
RECURSIVE ExtractColumns(_, _, _)
ExtractColumns(df, column_specs, all_features) ==
    IF column_specs = << >> THEN all_features
    ELSE ExtractColumns(df, Tail(column_specs),
             DictUpdate(all_features,
                        ExtractColumnFeatures(df, Head(column_specs)[1],
                                              Head(column_specs)[2])))

\* extract_all_from_config(df, column_specs, df_feature_names) for any specs
ExtractAllFromConfig(df, column_specs, df_feature_names) ==
    LET names == SelectSeq(df_feature_names,
                           LAMBDA n : n \in CUSTOM_DF_FEATURE_NAMES)
    IN DictUpdate(ExtractColumns(df, column_specs, << >>),
                  [i \in 1..Len(names) |->
                     << << names[i] >>, CUSTOM_DF_FEATURES(names[i], df) >>])

\* the names list_all_features appends for one spec
ListedNames(column, spec) ==
    LET stats == SelectSeq(spec.stats, LAMBDA n : n \in STAT_FUNCTION_NAMES)
        custom == SelectSeq(spec.custom,
                            LAMBDA n : n \in CUSTOM_COLUMN_AGGREGATION_NAMES)
    IN [i \in 1..Len(stats) |-> << column, "_", stats[i] >>]
       \o [i \in 1..Len(spec.percentiles) |->
             << column, "_p", spec.percentiles[i] >>]
       \o [i \in 1..Len(custom) |-> << column, "_", custom[i] >>]

RECURSIVE ListedColumns(_)
ListedColumns(column_specs) ==
    IF column_specs = << >> THEN << >>
    ELSE ListedNames(Head(column_specs)[1], Head(column_specs)[2])
         \o ListedColumns(Tail(column_specs))

\* list_all_features(column_specs, df_feature_names); sorted() reorders the
\* two lists, which are kept here in the order of their making
list_all_features(column_specs, df_feature_names) ==
    [column_features |-> ListedColumns(column_specs),
     custom_features |-> [i \in 1..Len(df_feature_names) |->
                            << df_feature_names[i] >>],
     total |-> Len(ListedColumns(column_specs)) + Len(df_feature_names)]


\* ----------------------------------------------------------- Feature Store
NoFeatures == [exists |-> FALSE, df |-> EmptyDF]

NoProcessed == [exists |-> FALSE, ids |-> {}]

NoMetadata ==
    [exists |-> FALSE, target_kpi |-> "",
     extractor_config |-> [input_sources |-> <<>>, ts_extractors |-> <<>>,
                           target_kpis |-> <<>>],
     feature_count |-> 0, feature_columns |-> <<>>, num_input_features |-> 0]

NoList == [exists |-> FALSE, lines |-> <<>>]

load_features(file) == IF file.exists THEN file.df ELSE EmptyDF

save_features(df) == [exists |-> TRUE, df |-> df]

get_processed_configs(file) == IF file.exists THEN file.ids ELSE {}

mark_processed(file, config_ids) ==
    [exists |-> TRUE, ids |-> get_processed_configs(file) \cup config_ids]

\* a variant of CombineFeatures that only concatenates
ConcatOnly(existing, new) == IF DFEmpty(existing) THEN new ELSE Concat(existing, new)

\* a variant of CombineFeatures that stores the batch alone
NewOnly(existing, new) == new

\* append_features, up to save_features(combined)
CombineFeatures(existing, new) ==
    IF DFEmpty(existing) THEN new
    ELSE Concat(IF HasCol(existing, Col("config_id"))
                   /\ HasCol(new, Col("config_id"))
                THEN DropIds(existing, new)
                ELSE existing,
                new)

\* new_features["config_id"].tolist()
BatchIds(new) == {v[1] : v \in ColumnValues(new, Col("config_id")) \ {None}}

ID_COLUMNS ==
    {Col("config_id"), Col("client_name"), Col("run_name"), Col("config_name")}

\* a variant of MetadataFeatureColumns that keeps the target_<kpi> columns
NonIdColumns(df) ==
    SelectSeq(df.cols, LAMBDA c : c \notin (ID_COLUMNS \cup {Col("target")}))

\* save_metadata: the columns that count as ML input
MetadataFeatureColumns(df) ==
    SelectSeq(df.cols,
              LAMBDA c : c \notin (ID_COLUMNS \cup {Col("target")})
                         /\ ~StartsWith(c, "target_"))

save_metadata(file, extractor_config, target_kpi) ==
    LET df == load_features(file)
        feature_columns == MetadataFeatureColumns(df)
    IN [exists |-> TRUE, target_kpi |-> target_kpi,
        extractor_config |-> extractor_config,
        feature_count |-> Len(df.cols),
        feature_columns |-> sorted(feature_columns),
        num_input_features |-> Len(feature_columns)]

save_feature_list(file) ==
    [exists |-> TRUE, lines |-> sorted(MetadataFeatureColumns(load_features(file)))]

\* get_ml_ready_data: the feature columns, or ValueError on an empty store
MlFeatureCols(df, target_col, exclude_cols) ==
    SelectSeq(df.cols,
              LAMBDA c : c \notin (ID_COLUMNS \cup {target_col} \cup exclude_cols))

get_ml_ready_data(file, target_col, exclude_cols) ==
    LET df == load_features(file)
    IN IF DFEmpty(df)
       THEN [op |-> "get_ml_ready_data", raised |-> TRUE, target_col |-> target_col,
             X |-> <<>>, has_y |-> FALSE, feature_cols |-> <<>>]
       ELSE [op |-> "get_ml_ready_data", raised |-> FALSE, target_col |-> target_col,
             X |-> MlFeatureCols(df, target_col, exclude_cols),
             has_y |-> HasCol(df, target_col),
             feature_cols |-> MlFeatureCols(df, target_col, exclude_cols)]

\* ------------------------------------------------- Data loader (DuckDBLoader)
\* get_all_configs: WHERE is_baseline = FALSE [AND client_name = ?]
SelectedConfigs(client_filter, include_baseline) ==
    {c \in ConfigIds :
        /\ include_baseline \/ battery_configs[c].is_baseline = FALSE
        /\ client_filter = None \/ ClientNameOf(c) = client_filter[1]}

SortedNames == << "A", "B", "r1", "r2" >>

NameRank(name) == CHOOSE i \in 1..Len(SortedNames) : SortedNames[i] = name

\* ORDER BY c.client_name, r.run_name, bc.battery_capacity_kwh (NULLS LAST)
OrderKeyLess(a, b) ==
    LET ka == << NameRank(ClientNameOf(a)), NameRank(RunNameOf(a)) >>
        kb == << NameRank(ClientNameOf(b)), NameRank(RunNameOf(b)) >>
        ca == battery_configs[a].battery_capacity_kwh
        cb == battery_configs[b].battery_capacity_kwh
    IN \/ ka[1] < kb[1]
       \/ ka[1] = kb[1] /\ ka[2] < kb[2]
       \/ ka = kb /\ ca # None /\ (cb = None \/ ca[1] < cb[1])

\* the row orders the query may return: rows with equal keys come in any order
QueryOrders(ids) ==
    {s \in SetToSeqs(ids) :
        \A i, j \in 1..Len(s) : i < j => ~OrderKeyLess(s[j], s[i])}

\* a variant of SkipProcessed that skips nothing
SkipNothing(ids, skip_config_ids) == ids

\* if skip_config_ids: configs[~configs["config_id"].isin(skip_config_ids)]
SkipProcessed(ids, skip_config_ids) ==
    IF skip_config_ids # {} THEN ids \ skip_config_ids ELSE ids

get_config_count(client_filter, skip_config_ids) ==
    Cardinality(SkipProcessed(SelectedConfigs(client_filter, FALSE),
                              skip_config_ids))

\* ----------------------------------------------------- KPIFeatureExtractor
\* _safe_float of a stored DOUBLE: NULL and absent both give NaN
get_kpi_values(config_id, kpi_names) ==
    [i \in 1..Len(kpi_names) |->
        << Col(kpi_names[i]), KpiGet(config_id, kpi_names[i]) >>]

get_target_values(config_id) ==
    [i \in 1..Len(KPI_TARGETS) |->
        << TargetCol(KPI_TARGETS[i]), KpiGet(config_id, KPI_TARGETS[i]) >>]

\* ------------------------------------------------ FeatureExtractionPipeline
\* One iteration of run's loop body: the row_features dict of a configuration
RowFeatures(config_id, target_kpi, include_timeseries_features) ==
    LET ts_df == load_timeseries(battery_configs[config_id].timeseries_file_path)
        ids == << << Col("config_id"), Some(config_id) >>,
                  << Col("client_name"), Some(ClientNameOf(config_id)) >>,
                  << Col("run_name"), Some(RunNameOf(config_id)) >>,
                  << Col("config_name"),
                     Some(battery_configs[config_id].config_name) >> >>
        direct == DictUpdate(ids, get_kpi_values(config_id, DIRECT_INPUT_NAMES))
        indirect == direct
        with_ts == IF include_timeseries_features /\ ~TsEmpty(ts_df)
                   THEN DictUpdate(indirect, extract_all(ts_df))
                   ELSE indirect
        targets == DictUpdate(with_ts, get_target_values(config_id))
    IN DictSet(targets, Col("target"), KpiGet(config_id, target_kpi))

NoopInputSources ==
    << "direct", "load_profile" >>
    \o (IF INDIRECT_INPUTS_ENABLED THEN << "indirect" >> ELSE <<>>)

NormalInputSources ==
    IF INDIRECT_INPUTS_ENABLED
    THEN << "direct", "indirect", "load_profile" >>
    ELSE << "direct", "load_profile" >>

ExtractorConfig(input_sources) ==
    [input_sources |-> input_sources, ts_extractors |-> ts_extractors,
     target_kpis |-> KPI_TARGETS]

\* -------------------------------------------------------- BenefitCalculator
\* a variant of BENEFIT_DEFINITIONS with the day-ahead KPI in the composite
BenefitDefinitionsMixed ==
    << << "peak_shaving_benefit", << "annual_total_grid_fee_cost_ic" >> >>,
       << "energy_procurement_optimization",
          << "annual_total_energy_trade_cost_da" >> >>,
       << "trading_revenue", << "annual_total_energy_trade_cost_ia",
                                "annual_total_energy_trade_cost_da" >> >> >>

\* [benefit name, the KPIs whose baseline - battery differences it sums]
BENEFIT_DEFINITIONS ==
    << << "peak_shaving_benefit", << "annual_total_grid_fee_cost_ic" >> >>,
       << "energy_procurement_optimization",
          << "annual_total_energy_trade_cost_da" >> >>,
       << "trading_revenue", << "annual_total_energy_trade_cost_ia",
                                "annual_total_energy_trade_cost_ic" >> >> >>

UpperLetters ==
    << "A", "B", "C", "D", "E", "F", "G", "H", "I", "J", "K", "L", "M",
       "N", "O", "P", "Q", "R", "S", "T", "U", "V", "W", "X", "Y", "Z" >>

LowerLetters ==
    << "a", "b", "c", "d", "e", "f", "g", "h", "i", "j", "k", "l", "m",
       "n", "o", "p", "q", "r", "s", "t", "u", "v", "w", "x", "y", "z" >>

\* SQL LOWER(text)
LOWER(text) ==
    [i \in 1..Len(text) |->
        IF \E k \in 1..Len(UpperLetters) : UpperLetters[k] = text[i]
        THEN LowerLetters[CHOOSE k \in 1..Len(UpperLetters) :
                            UpperLetters[k] = text[i]]
        ELSE text[i]]

\* text LIKE '%pattern%': "_" in the pattern stands for any one character
LikeContains(text, pattern) ==
    \E off \in 0..(Len(text) - Len(pattern)) :
        \A k \in 1..Len(pattern) :
            pattern[k] = "_" \/ text[off + k] = pattern[k]

\* part in text, of Python strings
Contains(text, part) ==
    \E off \in 0..(Len(text) - Len(part)) :
        \A k \in 1..Len(part) : text[off + k] = part[k]

\* IMPORT_SETTINGS["baseline_names"]
BASELINE_NAMES ==
    { << "0", "k", "w", "h" >>, << "0", "_", "k", "w", "h" >>,
      << "n", "o", "_", "b", "a", "t", "t", "e", "r", "y" >>,
      << "0", "_", "b", "a", "t", "t", "e", "r", "y" >>,
      << "b", "a", "s", "e", "l", "i", "n", "e" >>,
      << "n", "o", " ", "b", "a", "t", "t", "e", "r", "y" >>,
      << "0" >> }

\* --------------------------------------------------------------- imports
\* The four tables as one value, for operators that chain several writes.
DB ==
    [clients |-> clients, runs |-> runs, battery_configs |-> battery_configs,
     kpi_summary |-> kpi_summary]

\* SELECT client_id FROM clients WHERE client_name = ?
ClientIdIn(db, client_name) ==
    LET found == {i \in 1..Len(db.clients) : db.clients[i] = client_name}
    IN IF found = {} THEN None ELSE Some(CHOOSE i \in found : TRUE)

\* SELECT run_id FROM runs JOIN clients WHERE client_name = ? AND run_name = ?
RunIdIn(db, client_name, run_name) ==
    LET found == {r \in 1..Len(db.runs) :
                     /\ db.clients[db.runs[r].client_id] = client_name
                     /\ db.runs[r].run_name = run_name}
    IN IF found = {} THEN None ELSE Some(CHOOSE r \in found : TRUE)

\* SELECT config_id FROM battery_configs WHERE run_id = ? AND config_name = ?
ConfigIdIn(db, run_id, config_name) ==
    LET found == {c \in 1..Len(db.battery_configs) :
                     /\ db.battery_configs[c].run_id = run_id
                     /\ db.battery_configs[c].config_name = config_name}
    IN IF found = {} THEN None ELSE Some(CHOOSE c \in found : TRUE)

\* INSERT INTO clients, rejected by UNIQUE(client_name)
InsertClient(table, client_name) ==
    IF \E i \in 1..Len(table) : table[i] = client_name
    THEN table
    ELSE Append(table, client_name)

\* INSERT INTO runs, rejected by UNIQUE(client_id, run_name)
InsertRun(table, row) ==
    IF \E i \in 1..Len(table) :
          table[i].client_id = row.client_id /\ table[i].run_name = row.run_name
    THEN table
    ELSE Append(table, row)

\* BatteryDatabase.add_client: the insert, its constraint error swallowed
add_client(db, client_name) ==
    [db EXCEPT !.clients = InsertClient(db.clients, client_name)]

\* BatteryDatabase.add_run: the client is added if get_client_id finds none
add_run(db, client_name, run_name, input_parameters) ==
    LET db1 == IF ClientIdIn(db, client_name) = None
               THEN add_client(db, client_name) ELSE db
        row == [client_id |-> ClientIdIn(db1, client_name)[1],
                run_name |-> run_name, input_parameters |-> input_parameters]
    IN [db1 EXCEPT !.runs = InsertRun(db1.runs, row)]

\* BatteryDatabase.add_battery_config: the run is added if get_run_id finds
\* none
add_battery_config(db, client_name, run_name, config_name, is_baseline, battery_capacity_kwh, timeseries_file) ==
    LET db1 == IF RunIdIn(db, client_name, run_name) = None
               THEN add_run(db, client_name, run_name, None) ELSE db
        row == [run_id |-> RunIdIn(db1, client_name, run_name)[1],
                config_name |-> config_name, is_baseline |-> is_baseline,
                battery_capacity_kwh |-> battery_capacity_kwh,
                timeseries_file_path |-> timeseries_file]
    IN [db1 EXCEPT !.battery_configs = InsertConfig(db1.battery_configs, row)]

Digits == << "0", "1", "2", "3", "4", "5", "6", "7", "8", "9" >>

IsDigit(ch) == \E d \in 1..Len(Digits) : Digits[d] = ch

\* float() of the digits text[a..b]
RECURSIVE DigitsValue(_, _, _)
DigitsValue(text, a, b) ==
    IF b < a THEN 0
    ELSE DigitsValue(text, a, b - 1) * 10
         + (CHOOSE d \in 1..Len(Digits) : Digits[d] = text[b]) - 1

\* the matches of (\d+)\s*kWh, IGNORECASE, as << first digit, last digit >>
\* (names with a decimal point are not among those imported here)
CapacityMatches(text) ==
    {m \in (1..Len(text)) \X (1..Len(text)) :
        /\ m[1] <= m[2]
        /\ \A i \in m[1]..m[2] : IsDigit(text[i])
        /\ \E e \in m[2]..(Len(text) - 3) :
              /\ \A i \in (m[2] + 1)..e : text[i] = " "
              /\ LOWER(SubSeq(text, e + 1, e + 3)) = << "k", "w", "h" >>}

\* _parse_battery_specs: the capacity of the leftmost match
_parse_battery_specs(config_name) ==
    IF CapacityMatches(config_name) = {} THEN None
    ELSE LET m == CHOOSE m \in CapacityMatches(config_name) :
                     \A n \in CapacityMatches(config_name) : m[1] <= n[1]
         IN Some(DigitsValue(config_name, m[1], m[2]))

\* is_baseline as _import_output_files_direct decides it
IsBaselineDirect(config_name) ==
    LET config_lower == LOWER(config_name)
    IN \/ config_lower \in BASELINE_NAMES
       \/ /\ Len(config_lower) >= 4
          /\ SubSeq(config_lower, 1, 4) = << "0", "k", "w", "h" >>

\* GDriveImporter._is_baseline
_is_baseline(config_name) == LOWER(config_name) \in BASELINE_NAMES

\* the substrings BatteryDatabase._import_output_files looks for
BASELINE_PARTS ==
    { << "n", "o", "_", "b", "a", "t", "t", "e", "r", "y" >>,
      << "0", "_", "b", "a", "t", "t", "e", "r", "y" >>,
      << "0", "b", "a", "t", "t", "e", "r", "y" >>,
      << "0", "k", "w", "h" >>,
      << "b", "a", "s", "e", "l", "i", "n", "e" >>,
      << "n", "o", " ", "b", "a", "t", "t", "e", "r", "y" >> }

\* is_baseline as BatteryDatabase._import_output_files decides it
IsBaselineContains(config_name) ==
    \E x \in BASELINE_PARTS : Contains(LOWER(config_name), x)

\* An Output folder is a sequence of entries, one per configuration its
\* file names yield: [config_name, kpi, ts], kpi being << >> without a KPI
\* file and << rows >> with one, ts the timeseries file path or << >>.
ImportedConfigRow(run_id, entry, is_baseline) ==
    [run_id |-> run_id, config_name |-> entry.config_name,
     is_baseline |-> is_baseline,
     battery_capacity_kwh |-> _parse_battery_specs(entry.config_name),
     timeseries_file_path |-> entry.ts]

\* _import_output_files_direct, one configuration: the insert with its
\* constraint error swallowed, then the KPI import
ImportConfigDirect(db, run_id, entry) ==
    LET db1 == [db EXCEPT !.battery_configs =
                   InsertConfig(db.battery_configs,
                                ImportedConfigRow(run_id, entry,
                                    IsBaselineDirect(entry.config_name)))]
    IN [db1 EXCEPT !.kpi_summary =
           import_kpis_from_csv(db1.kpi_summary,
               ConfigIdIn(db1, run_id, entry.config_name)[1], entry.kpi)]

RECURSIVE _import_output_files_direct(_, _, _)
_import_output_files_direct(db, run_id, output_folder) ==
    IF output_folder = << >> THEN db
    ELSE _import_output_files_direct(
             ImportConfigDirect(db, run_id, Head(output_folder)), run_id,
             Tail(output_folder))

\* GDriveImporter._import_kpis: the same conversion and upsert per row
_import_kpis(table, config_id, kpi_file) ==
    import_kpis_from_csv(table, config_id, kpi_file)

\* GDriveImporter._import_config: insert and KPI import share one try; an
\* exception of the insert returns False from the except branch
_import_config(db, run_id, entry) ==
    IF ConfigIdIn(db, run_id, entry.config_name) # None THEN db
    ELSE LET db1 == [db EXCEPT !.battery_configs =
                       Append(db.battery_configs,
                              ImportedConfigRow(run_id, entry,
                                  _is_baseline(entry.config_name)))]
         IN [db1 EXCEPT !.kpi_summary =
                _import_kpis(db1.kpi_summary,
                    ConfigIdIn(db1, run_id, entry.config_name)[1], entry.kpi)]

\* GDriveImporter._import_output_files: the configurations in sorted order
RECURSIVE _import_output_files(_, _, _)
_import_output_files(db, run_id, output_folder) ==
    IF output_folder = << >> THEN db
    ELSE _import_output_files(_import_config(db, run_id, Head(output_folder)),
                              run_id, Tail(output_folder))

\* BatteryDatabase._import_output_files, one configuration:
\* add_battery_config, then the KPI import
ImportConfigNamed(db, client_name, run_name, entry) ==
    LET db1 == add_battery_config(db, client_name, run_name, entry.config_name,
                                  IsBaselineContains(entry.config_name),
                                  _parse_battery_specs(entry.config_name),
                                  entry.ts)
    IN [db1 EXCEPT !.kpi_summary =
           import_kpis_from_csv(db1.kpi_summary,
               ConfigIdIn(db1, RunIdIn(db1, client_name, run_name)[1],
                          entry.config_name)[1],
               entry.kpi)]

\* BatteryDatabase._import_output_files(client_name, run_name, output_folder)
RECURSIVE _import_output_files_named(_, _, _, _)
_import_output_files_named(db, client_name, run_name, output_folder) ==
    IF output_folder = << >> THEN db
    ELSE _import_output_files_named(
             ImportConfigNamed(db, client_name, run_name, Head(output_folder)),
             client_name, run_name, Tail(output_folder))

\* scan_and_import_folder on a root with one client folder holding one run
\* folder: add_client, _add_run_with_path, _import_output_files_direct
scan_and_import_folder(db, client_name, run_name, input_params, output_folder) ==
    LET db1 == add_run(add_client(db, client_name), client_name, run_name,
                       input_params)
    IN _import_output_files_direct(db1, RunIdIn(db1, client_name, run_name)[1],
                                   output_folder)

\* GDriveImporter.import_all on a base with one client folder holding one
\* run folder: a run without output files is not found by _find_runs
import_all(db, client_name, run_name, input_params, output_folder) ==
    IF output_folder = << >> THEN db
    ELSE LET db1 == add_run(add_client(db, client_name), client_name, run_name,
                            input_params)
         IN _import_output_files(db1, RunIdIn(db1, client_name, run_name)[1],
                                 output_folder)

RunConfigs(run_id) == {c \in ConfigIds : battery_configs[c].run_id = run_id}

\* a variant of FlaggedBaseline that takes the highest flagged id
FlaggedBaselineLast(run_id) ==
    LET flagged == {c \in RunConfigs(run_id) : battery_configs[c].is_baseline}
    IN IF flagged = {} THEN None
       ELSE Some(CHOOSE c \in flagged : \A d \in flagged : d <= c)

\* first query: WHERE is_baseline = TRUE ORDER BY config_id LIMIT 1
FlaggedBaseline(run_id) ==
    LET flagged == {c \in RunConfigs(run_id) : battery_configs[c].is_baseline}
    IN IF flagged = {} THEN None ELSE Some(Min(flagged))

\* the WHERE clause of the fallback query
FallbackMatches(c) ==
    LET capacity == battery_configs[c].battery_capacity_kwh
        name == LOWER(battery_configs[c].config_name)
    IN \/ capacity = Some(0)
       \/ capacity = None
       \/ LikeContains(name, << "0", "k", "w", "h" >>)
       \/ LikeContains(name, << "0", "_", "k", "w", "h" >>)
       \/ name = << "0", "k", "w", "h" >>

\* ORDER BY battery_capacity_kwh NULLS FIRST
CapacityBefore(a, b) ==
    LET ca == battery_configs[a].battery_capacity_kwh
        cb == battery_configs[b].battery_capacity_kwh
    IN cb # None /\ (ca = None \/ ca[1] < cb[1])

\* fallback query: LIMIT 1 of an order that leaves equal capacities in any
\* order, so each first-ranked candidate is a possible result
FallbackBaselines(run_id) ==
    LET cand == {c \in RunConfigs(run_id) : FallbackMatches(c)}
    IN IF cand = {} THEN {None}
       ELSE {Some(c) : c \in {d \in cand :
                                 \A e \in cand : ~CapacityBefore(e, d)}}

\* the results get_baseline_for_run(run_id) can return
get_baseline_for_run(run_id) ==
    IF FlaggedBaseline(run_id) # None THEN {FlaggedBaseline(run_id)}
    ELSE FallbackBaselines(run_id)

\* Python values a KPI dict can hold besides a number <<n>> and None/NaN <<>>:
\* the boolean False, and a string, kept as what float() makes of it
\* (<<>> when float() raises ValueError).
PyFalse == << "bool", FALSE >>

PyStr(parsed) == << "str", parsed >>

\* BenefitCalculator.get_kpi_values: dict(zip(kpi_name, kpi_value))
GetKpiDict(config_id) ==
    [kpi_name \in {k.kpi_name : k \in ConfigKpis(config_id)} |->
        KpiGet(config_id, kpi_name)]

\* dict.get(kpi_name)
PyGet(kpis, kpi_name) ==
    IF kpi_name \in DOMAIN kpis THEN kpis[kpi_name] ELSE None

\* float(value) of a value that is neither None nor False: <<>> stands for
\* the ValueError of a non-numeric string and for NaN, which both end in NaN
PyFloat(value) ==
    IF Len(value) = 2 /\ value[1] = "str" THEN value[2] ELSE value

\* the value of one side after the None, False and float() tests: <<>> when
\* the benefit is to be NaN
ValidKpi(kpis, kpi_name) ==
    LET value == PyGet(kpis, kpi_name)
    IN IF Len(value) = 0 THEN None
       ELSE IF Len(value) = 2 /\ value[1] = "bool" /\ value[2] = FALSE THEN None
       ELSE PyFloat(value)

\* a variant of Benefit that sums the components that are valid
BenefitPartialSum(component_kpis, baseline_kpis, battery_kpis) ==
    Some(SeqSum([i \in 1..Len(component_kpis) |->
            IF \/ ValidKpi(baseline_kpis, component_kpis[i]) = None
               \/ ValidKpi(battery_kpis, component_kpis[i]) = None
            THEN 0
            ELSE ValidKpi(baseline_kpis, component_kpis[i])[1]
                 - ValidKpi(battery_kpis, component_kpis[i])[1]]))

\* one benefit: sum of baseline - battery over its KPIs, NaN if one of them
\* is invalid on either side
Benefit(component_kpis, baseline_kpis, battery_kpis) ==
    IF \E i \in 1..Len(component_kpis) :
          \/ ValidKpi(baseline_kpis, component_kpis[i]) = None
          \/ ValidKpi(battery_kpis, component_kpis[i]) = None
    THEN None
    ELSE Some(SeqSum([i \in 1..Len(component_kpis) |->
                        ValidKpi(baseline_kpis, component_kpis[i])[1]
                        - ValidKpi(battery_kpis, component_kpis[i])[1]]))

calculate_benefits(baseline_kpis, battery_kpis) ==
    [i \in 1..Len(BENEFIT_DEFINITIONS) |->
        Benefit(BENEFIT_DEFINITIONS[i][2], baseline_kpis, battery_kpis)]

\* get_run_id(client_name, run_name)
get_run_id(client_name, run_name) ==
    LET found == {r \in 1..Len(runs) : /\ clients[runs[r].client_id] = client_name
                                       /\ runs[r].run_name = run_name}
    IN IF found = {} THEN None ELSE Some(CHOOSE r \in found : TRUE)

\* a variant of ConfigBenefits that computes the flagged rows too
ComputedBenefits(config_id, baseline_config_id) ==
    calculate_benefits(GetKpiDict(baseline_config_id), GetKpiDict(config_id))

\* the benefits of one row: 0.0 for a flagged baseline, else computed
ConfigBenefits(config_id, baseline_config_id) ==
    IF battery_configs[config_id].is_baseline
    THEN [i \in 1..Len(BENEFIT_DEFINITIONS) |-> Some(0)]
    ELSE calculate_benefits(GetKpiDict(baseline_config_id),
                            GetKpiDict(config_id))

\* the row of one configuration in calculate_benefits_for_run
BenefitRow(config_id, baseline_config_id) ==
    [config_id |-> config_id,
     config_name |-> battery_configs[config_id].config_name,
     battery_capacity_kwh |-> battery_configs[config_id].battery_capacity_kwh,
     is_baseline |-> battery_configs[config_id].is_baseline,
     baseline_config_id |-> baseline_config_id,
     benefits |-> ConfigBenefits(config_id, baseline_config_id)]

\* ORDER BY battery_capacity_kwh (NULLS LAST): equal capacities in any order
CapacityOrders(ids) ==
    {s \in SetToSeqs(ids) :
        \A i, j \in 1..Len(s) :
            i < j => ~(LET ca == battery_configs[s[j]].battery_capacity_kwh
                           cb == battery_configs[s[i]].battery_capacity_kwh
                       IN ca # None /\ (cb = None \/ ca[1] < cb[1]))}

\* run not found: warnings.warn(...); return pd.DataFrame()
RunNotFoundResult == [raised |-> FALSE, rows |-> <<>>]

\* a variant of NoBaselineResult in which the missing baseline is an error
NoBaselineRaises == [raised |-> TRUE, rows |-> <<>>]

\* no baseline: warnings.warn(...); return pd.DataFrame()
NoBaselineResult == [raised |-> FALSE, rows |-> <<>>]

\* the results calculate_benefits_for_run can return for a run id
RunBenefits(run_id, include_baseline) ==
    {IF baseline = None THEN NoBaselineResult
     ELSE [raised |-> FALSE,
           rows |-> [i \in 1..Len(SelectSeq(order, LAMBDA c :
                              include_baseline
                              \/ ~battery_configs[c].is_baseline)) |->
                       BenefitRow(SelectSeq(order, LAMBDA c :
                                     include_baseline
                                     \/ ~battery_configs[c].is_baseline)[i],
                                  baseline[1])]] :
        baseline \in get_baseline_for_run(run_id),
        order \in CapacityOrders(RunConfigs(run_id))}

calculate_benefits_for_run(client_name, run_name, include_baseline) ==
    IF get_run_id(client_name, run_name) = None THEN {RunNotFoundResult}
    ELSE RunBenefits(get_run_id(client_name, run_name)[1], include_baseline)

\* get_runs(client_name): ORDER BY client_name, run_date DESC; at most one
\* run per client here, so the order is by client name
get_runs(client_name) ==
    SelectSeq([r \in 1..Len(runs) |-> r],
              LAMBDA r : client_name = None
                         \/ clients[runs[r].client_id] = client_name[1])

\* the loop of calculate_all_benefits over the runs still to do: an exception
\* of a run ends the call, a result of length 0 is not appended
RECURSIVE AllBenefits(_, _, _)
AllBenefits(todo, include_baseline, all_benefits) ==
    IF todo = <<>> THEN {[raised |-> FALSE, rows |-> all_benefits]}
    ELSE UNION {IF benefits_df.raised THEN {[raised |-> TRUE, rows |-> <<>>]}
                ELSE AllBenefits(Tail(todo), include_baseline,
                                 IF Len(benefits_df.rows) > 0
                                 THEN all_benefits \o benefits_df.rows
                                 ELSE all_benefits) :
                benefits_df \in calculate_benefits_for_run(
                                   clients[runs[Head(todo)].client_id],
                                   runs[Head(todo)].run_name, include_baseline)}

calculate_all_benefits(client_name, include_baseline) ==
    AllBenefits(get_runs(client_name), include_baseline, <<>>)

\* calculate_benefits_for_run when the database read of get_kpi_values
\* raises for the configurations in unreadable: the baseline's KPIs are read
\* before the loop and those of every configuration that is not skipped
\* inside it, with no handler around either, so the first failing read ends
\* the call with its exception
RunBenefitsReading(run_id, include_baseline, unreadable) ==
    {IF baseline = None THEN NoBaselineResult
     ELSE IF \/ baseline[1] \in unreadable
             \/ \E c \in RunConfigs(run_id) :
                   /\ c \in unreadable
                   /\ include_baseline \/ ~battery_configs[c].is_baseline
          THEN [raised |-> TRUE, rows |-> <<>>]
          ELSE [raised |-> FALSE,
                rows |-> [i \in 1..Len(SelectSeq(order, LAMBDA c :
                                   include_baseline
                                   \/ ~battery_configs[c].is_baseline)) |->
                            BenefitRow(SelectSeq(order, LAMBDA c :
                                          include_baseline
                                          \/ ~battery_configs[c].is_baseline)[i],
                                       baseline[1])]] :
        baseline \in get_baseline_for_run(run_id),
        order \in CapacityOrders(RunConfigs(run_id))}

calculate_benefits_for_run_reading(client_name, run_name, include_baseline, unreadable) ==
    IF get_run_id(client_name, run_name) = None THEN {RunNotFoundResult}
    ELSE RunBenefitsReading(get_run_id(client_name, run_name)[1],
                            include_baseline, unreadable)

\* the loop of calculate_all_benefits, likewise without a handler
RECURSIVE AllBenefitsReading(_, _, _, _)
AllBenefitsReading(todo, include_baseline, all_benefits, unreadable) ==
    IF todo = <<>> THEN {[raised |-> FALSE, rows |-> all_benefits]}
    ELSE UNION {IF benefits_df.raised THEN {[raised |-> TRUE, rows |-> <<>>]}
                ELSE AllBenefitsReading(Tail(todo), include_baseline,
                                        IF Len(benefits_df.rows) > 0
                                        THEN all_benefits \o benefits_df.rows
                                        ELSE all_benefits, unreadable) :
                benefits_df \in calculate_benefits_for_run_reading(
                                   clients[runs[Head(todo)].client_id],
                                   runs[Head(todo)].run_name, include_baseline,
                                   unreadable)}

calculate_all_benefits_reading(client_name, include_baseline, unreadable) ==
    AllBenefitsReading(get_runs(client_name), include_baseline, <<>>,
                       unreadable)

\* a variant of SaveBenefit that writes the NaN too
SaveBenefitAlways(table, row, i) ==
    UpsertKpiRow(table, row.config_id, BENEFIT_DEFINITIONS[i][1],
                 row.benefits[i], Some("EUR/year"))

\* save_benefits_as_kpis, one benefit of one row: skipped if NaN, else
\* upserted with the unit of its definition
SaveBenefit(table, row, i) ==
    IF row.benefits[i] = None THEN table
    ELSE UpsertKpiRow(table, row.config_id, BENEFIT_DEFINITIONS[i][1],
                      row.benefits[i], Some("EUR/year"))

\* ... the benefits of one row, from benefit i on
RECURSIVE SaveBenefitsFrom(_, _, _)
SaveBenefitsFrom(table, row, i) ==
    IF i > Len(BENEFIT_DEFINITIONS) THEN table
    ELSE SaveBenefitsFrom(SaveBenefit(table, row, i), row, i + 1)

\* ... the rows of benefits_df in order
RECURSIVE save_benefits_as_kpis(_, _)
save_benefits_as_kpis(table, rows) ==
    IF rows = <<>> THEN table
    ELSE save_benefits_as_kpis(SaveBenefitsFrom(table, Head(rows), 1), Tail(rows))


\* ------------------------------------------------------------ ModelRegistry
\* registry.json is missing (None) or holds a dict name -> entry. A number is
\* << type, n >>: a Python int, or a numpy integer that json.dump writes
\* through _json_serialize.
NoRegistry == None

PyInt(n) == << "int", n >>

NpInt(n) == << "np.int64", n >>

\* int(obj) for np.integer
_json_serialize(obj) == PyInt(obj[2])

\* what json.dump writes for a number and json.load reads back
JsonNumber(v) == IF v[1] = "int" THEN v ELSE _json_serialize(v)

\* target_name.replace("target_", "") on a name kept as its joined pieces
CleanName(target_name) == SelectSeq(target_name, LAMBDA t : t # "target_")

\* registry_dir / f"{clean_name}_model.joblib"
ModelPath(clean_name) == clean_name \o << "_model" >>

\* the ModelInfo of register_model, without its training_date, its
\* feature_importance and the metrics other than r2
ModelInfo(clean_name, model, metrics, hyperparameters, n_samples, n_features) ==
    [target_name |-> clean_name,
     model_type |-> model,
     r2_score |-> metrics.r2,
     n_samples |-> n_samples,
     n_features |-> n_features,
     hyperparameters |-> hyperparameters,
     model_path |-> ModelPath(clean_name)]

\* a registry that keeps the entry a name already has
KeepModel(registry, clean_name, info) ==
    [n \in DOMAIN registry \cup { clean_name } |->
       IF n \in DOMAIN registry THEN registry[n] ELSE info]

\* self.models[clean_name] = ModelInfo(...)
SetModel(registry, clean_name, info) ==
    [n \in DOMAIN registry \cup { clean_name } |->
       IF n = clean_name THEN info ELSE registry[n]]

\* asdict(info) as json.dump writes it
InfoJson(info) ==
    [info EXCEPT !.n_samples = JsonNumber(@), !.n_features = JsonNumber(@)]

\* ModelRegistry._save_registry: the new content of registry.json
_save_registry(registry) ==
    Some([n \in DOMAIN registry |-> InfoJson(registry[n])])

\* ModelRegistry._load_registry: self.models after __init__
_load_registry(file) == IF file = None THEN << >> ELSE file[1]

\* --------------------------------------------------------------- training
IdleTraining == [i |-> 0]

\* TARGETS
TARGETS == [i \in 1..Len(KPI_TARGETS) |-> TargetCol(KPI_TARGETS[i])]

\* EXCLUDE_COLS and TARGETS, the columns that are no features
EXCLUDE_COLS ==
    { Col("config_id"), Col("client_name"), Col("run_name"),
      Col("config_name"), Col("target") } \cup Range(TARGETS)

\* prepare_data: feature_cols
FeatureCols(df) == SelectSeq(df.cols, LAMBDA c : c \notin EXCLUDE_COLS)

\* the rows of ~y.isna()
CleanRows(df, target) == {i \in 1..Len(df.rows) : df.rows[i][target] # None}

\* groups.nunique() over a set of rows (NaN is not counted)
GroupsOf(df, rows) == {df.rows[i][Col("client_name")] : i \in rows} \ { None }

\* train_all_models: groups, None for a random split
TrainingGroups(df, group_aware) ==
    IF group_aware /\ HasCol(df, Col("client_name"))
       /\ Cardinality(GroupsOf(df, 1..Len(df.rows))) >= 2
    THEN Some(Col("client_name")) ELSE None

\* use_group_split with a threshold of 3 groups
UseGroupSplitThree(df, groups, target) ==
    groups # None /\ Cardinality(GroupsOf(df, CleanRows(df, target))) >= 3

\* train_single_model: use_group_split
UseGroupSplit(df, groups, target) ==
    groups # None /\ Cardinality(GroupsOf(df, CleanRows(df, target))) >= 2

\* ceil(test_size * n) with test_size = 0.2; the rest is the train side
NTest(n) == (n + 4) \div 5

\* GroupShuffleSplit(n_splits=1, test_size).split: every choice of NTest
\* groups as the test side, as [train, test] sets of rows
GroupSplits(df, rows) ==
    LET classes == GroupsOf(df, rows)
    IN {[train |-> {i \in rows : df.rows[i][Col("client_name")] \notin test},
         test |-> {i \in rows : df.rows[i][Col("client_name")] \in test}] :
          test \in {g \in SUBSET classes :
                      Cardinality(g) = NTest(Cardinality(classes))}}

\* train_test_split(test_size): every choice of NTest rows as the test side
RandomSplits(df, rows) ==
    {[train |-> rows \ test, test |-> test] :
       test \in {r \in SUBSET rows : Cardinality(r) = NTest(Cardinality(rows))}}

\* the splits train_single_model can make for a target
Splits(df, groups, target) ==
    IF UseGroupSplit(df, groups, target)
    THEN GroupSplits(df, CleanRows(df, target))
    ELSE RandomSplits(df, CleanRows(df, target))

\* the least number of samples train_single_model trains on
MinSamples == 10

\* the least number of target values for which train_all_models trains
MinTargetValues == 5

\* type(model).__name__ under model_type "auto": xgboost, where installed,
\* from 50 samples on
ModelTypes(n_samples) ==
    IF n_samples >= 50 THEN { "XGBRegressor", "GradientBoostingRegressor" }
    ELSE { "GradientBoostingRegressor" }

\* ------------------------------------------------------------ initial state
IdleRun ==
    [active |-> FALSE, target_kpi |-> "", client_filter |-> None,
     incremental |-> FALSE, batch_size |-> 0, include_ts |-> FALSE,
     iterator |-> <<>>, batch_features |-> <<>>, n_done |-> 0, n_saved |-> 0,
     noop |-> FALSE, again |-> FALSE, prev_incremental |-> FALSE,
     before_features |-> NoFeatures, before_processed |-> NoProcessed]

NoLastRun ==
    [valid |-> FALSE, target_kpi |-> "", client_filter |-> None,
     incremental |-> FALSE]

NoRet == [op |-> "none"]

Init ==
    /\ clients = << "A", "B" >>
    /\ runs = << [client_id |-> 1, run_name |-> "r1"],
                 [client_id |-> 2, run_name |-> "r2"] >>
    /\ battery_configs = <<>>
    /\ kpi_summary = {}
    /\ features_file = NoFeatures
    /\ processed_file = NoProcessed
    /\ metadata_file = NoMetadata
    /\ list_file = NoList
    /\ pc = "idle"
    /\ run = IdleRun
    /\ new_features = EmptyDF
    /\ last_run = NoLastRun
    /\ ret = NoRet
    /\ models = << >>
    /\ registry_file = NoRegistry
    /\ model_files = << >>
    /\ training = IdleTraining

\* ----------------------------------------------------- Entity Store actions
\* BatteryDatabase.add_battery_config
AddBatteryConfig(run_id, config_name, is_baseline, capacity, ts_path) ==
    LET row == [run_id |-> run_id, config_name |-> config_name,
                is_baseline |-> is_baseline,
                battery_capacity_kwh |-> capacity,
                timeseries_file_path |-> ts_path]
        table == InsertConfig(battery_configs, row)
    IN /\ pc = "idle"
       /\ battery_configs' = table
       /\ ret' = NoRet
       /\ last_run' = IF table = battery_configs THEN last_run ELSE NoLastRun
       /\ UNCHANGED << ml_vars, clients, runs, kpi_summary, store_vars, pc, run,
                       new_features >>

\* one upserted kpi_summary row (KPI import, save_benefits_as_kpis)
UpsertKpi(config_id, kpi_name, kpi_value, kpi_unit) ==
    /\ pc = "idle"
    /\ config_id \in ConfigIds
    /\ kpi_summary' = UpsertKpiRow(kpi_summary, config_id, kpi_name,
                                   kpi_value, kpi_unit)
    /\ ret' = NoRet
    /\ last_run' = IF kpi_summary' = kpi_summary THEN last_run ELSE NoLastRun
    /\ UNCHANGED << ml_vars, clients, runs, battery_configs, store_vars, pc, run,
                    new_features >>

\* BatteryDatabase.import_kpis_from_csv(config_id, csv_path)
ImportKpisFromCsv(config_id, kpi_file) ==
    /\ pc = "idle"
    /\ config_id \in ConfigIds
    /\ kpi_summary' = import_kpis_from_csv(kpi_summary, config_id, kpi_file)
    /\ ret' = [op |-> "import_kpis_from_csv", config_id |-> config_id,
               kpi_file |-> kpi_file]
    /\ last_run' = IF kpi_summary' = kpi_summary THEN last_run ELSE NoLastRun
    /\ UNCHANGED << ml_vars, clients, runs, battery_configs, store_vars, pc, run,
                    new_features >>

\* the four tables become those of db; ret is what the call returned
WriteDB(db, returned) ==
    /\ pc = "idle"
    /\ clients' = db.clients
    /\ runs' = db.runs
    /\ battery_configs' = db.battery_configs
    /\ kpi_summary' = db.kpi_summary
    /\ ret' = returned
    /\ last_run' = IF db = DB THEN last_run ELSE NoLastRun
    /\ UNCHANGED << ml_vars, store_vars, pc, run, new_features >>

\* the row a natural key names before a call, << >> if there is none
RowBefore(id, table) ==
    IF id = None THEN None ELSE Some([id |-> id[1], row |-> table[id[1]]])

\* BatteryDatabase.add_client(client_name): returns the id it selects
AddClient(client_name) ==
    LET db == add_client(DB, client_name)
    IN WriteDB(db, [op |-> "add_client",
                    before |-> RowBefore(ClientIdIn(DB, client_name), clients),
                    id |-> ClientIdIn(db, client_name)])

\* BatteryDatabase.add_run(client_name, run_name, input_parameters)
AddRun(client_name, run_name, input_parameters) ==
    LET db == add_run(DB, client_name, run_name, input_parameters)
    IN WriteDB(db, [op |-> "add_run",
                    before |-> RowBefore(RunIdIn(DB, client_name, run_name), runs),
                    id |-> RunIdIn(db, client_name, run_name)])

\* BatteryDatabase.add_battery_config by client, run and config name
AddBatteryConfigNamed(client_name, run_name, config_name, is_baseline, battery_capacity_kwh, timeseries_file) ==
    LET db == add_battery_config(DB, client_name, run_name, config_name,
                                 is_baseline, battery_capacity_kwh,
                                 timeseries_file)
        run_before == RunIdIn(DB, client_name, run_name)
        run_id == RunIdIn(db, client_name, run_name)[1]
    IN WriteDB(db, [op |-> "add_battery_config",
                    before |-> IF run_before = None THEN None
                               ELSE RowBefore(ConfigIdIn(DB, run_before[1],
                                                         config_name),
                                              battery_configs),
                    id |-> ConfigIdIn(db, run_id, config_name)])

\* the configurations of an Output folder the run already has
Reimported(client_name, run_name, output_folder) ==
    IF RunIdIn(DB, client_name, run_name) = None THEN {}
    ELSE {i \in 1..Len(output_folder) :
             ConfigIdIn(DB, RunIdIn(DB, client_name, run_name)[1],
                        output_folder[i].config_name) # None}

\* BatteryDatabase.scan_and_import_folder over one run folder
ScanAndImportFolder(client_name, run_name, input_params, output_folder) ==
    LET db == scan_and_import_folder(DB, client_name, run_name, input_params,
                                     output_folder)
    IN WriteDB(db, [op |-> "scan_and_import_folder",
                    run_id |-> RunIdIn(db, client_name, run_name)[1],
                    output_folder |-> output_folder,
                    reimported |-> Reimported(client_name, run_name,
                                              output_folder)])

\* BatteryDatabase._import_output_files over the Output folder of a run
ImportOutputFiles(client_name, run_name, output_folder) ==
    LET db == _import_output_files_named(DB, client_name, run_name,
                                         output_folder)
    IN /\ output_folder # << >>
       /\ WriteDB(db, [op |-> "_import_output_files",
                       run_id |-> RunIdIn(db, client_name, run_name)[1],
                       output_folder |-> output_folder,
                       reimported |-> Reimported(client_name, run_name,
                                                 output_folder)])

\* GDriveImporter.import_all over one run folder
GDriveImportAll(client_name, run_name, input_params, output_folder) ==
    LET db == import_all(DB, client_name, run_name, input_params,
                         output_folder)
    IN /\ output_folder # << >>
       /\ WriteDB(db, [op |-> "import_all",
                       run_id |-> RunIdIn(db, client_name, run_name)[1],
                       output_folder |-> output_folder,
                       reimported |-> Reimported(client_name, run_name,
                                                 output_folder)])

\* ---------------------------------------------------- Feature Store actions
\* FeatureStore.append_features(new): load, combine, save_features(combined).
\* Until mark_processed has run, ret notes which stored ids the batch replaced.
AppendFeatures(new) ==
    /\ pc = "idle"
    /\ features_file' =
          save_features(CombineFeatures(load_features(features_file), new))
    /\ new_features' = IF HasCol(new, Col("config_id")) THEN new ELSE EmptyDF
    /\ pc' = IF HasCol(new, Col("config_id")) THEN "append_mark" ELSE "idle"
    /\ ret' = IF HasCol(new, Col("config_id"))
              THEN [op |-> "append_features_saved",
                    replaced |-> IF HasCol(load_features(features_file),
                                           Col("config_id"))
                                 THEN ColumnValues(load_features(features_file),
                                                   Col("config_id"))
                                      \cap ColumnValues(new, Col("config_id"))
                                 ELSE {}]
              ELSE [op |-> "append_features"]
    /\ last_run' = NoLastRun
    /\ UNCHANGED << ml_vars, entity_vars, processed_file, metadata_file, list_file, run >>

\* ... then mark_processed(new["config_id"].tolist()); back in run, the
\* caller empties batch_features
AppendFeaturesMark ==
    /\ pc = "append_mark"
    /\ processed_file' = mark_processed(processed_file, BatchIds(new_features))
    /\ new_features' = EmptyDF
    /\ pc' = IF run.active THEN "run_loop" ELSE "idle"
    /\ run' = IF run.active
              THEN [run EXCEPT !.batch_features = <<>>, !.n_saved = @ + 1]
              ELSE run
    /\ ret' = IF run.active THEN ret ELSE [op |-> "append_features"]
    /\ UNCHANGED << ml_vars, entity_vars, features_file, metadata_file, list_file,
                    last_run >>

\* FeatureStore.save_features called on its own: the matrix is overwritten,
\* the ledger is not touched
SaveFeatures(df) ==
    /\ pc = "idle"
    /\ features_file' = save_features(df)
    /\ ret' = [op |-> "save_features"]
    /\ last_run' = NoLastRun
    /\ UNCHANGED << ml_vars, entity_vars, processed_file, metadata_file, list_file,
                    pc, run, new_features >>

\* FeatureStore.save_metadata called on its own
SaveMetadata(target_kpi) ==
    /\ pc = "idle"
    /\ metadata_file' = save_metadata(features_file,
                                      ExtractorConfig(NormalInputSources),
                                      target_kpi)
    /\ list_file' = save_feature_list(features_file)
    /\ ret' = NoRet
    /\ UNCHANGED << ml_vars, entity_vars, features_file, processed_file, pc, run,
                    new_features, last_run >>

\* FeatureStore.clear, one unlink at a time
ClearFeatures ==
    /\ pc = "idle"
    /\ features_file' = NoFeatures
    /\ pc' = "clear_processed"
    /\ ret' = NoRet
    /\ last_run' = NoLastRun
    /\ UNCHANGED << ml_vars, entity_vars, processed_file, metadata_file, list_file, run,
                    new_features >>

ClearProcessed ==
    /\ pc = "clear_processed"
    /\ processed_file' = NoProcessed
    /\ pc' = "clear_metadata"
    /\ UNCHANGED << ml_vars, entity_vars, features_file, metadata_file, list_file, run,
                    new_features, last_run, ret >>

ClearMetadata ==
    /\ pc = "clear_metadata"
    /\ metadata_file' = NoMetadata
    /\ pc' = "clear_list"
    /\ UNCHANGED << ml_vars, entity_vars, features_file, processed_file, list_file, run,
                    new_features, last_run, ret >>

ClearList ==
    /\ pc = "clear_list"
    /\ list_file' = NoList
    /\ pc' = "idle"
    /\ ret' = [op |-> "clear"]
    /\ UNCHANGED << ml_vars, entity_vars, features_file, processed_file, metadata_file,
                    run, new_features, last_run >>

\* FeatureStore.get_ml_ready_data(target_col)
GetMlReadyData(target_col) ==
    /\ pc = "idle"
    /\ ret' = get_ml_ready_data(features_file, target_col, {})
    /\ UNCHANGED << ml_vars, entity_vars, store_vars, pc, run, new_features, last_run >>

\* The process dies wherever it is; the files stay as they are.
Crash ==
    /\ pc # "idle"
    /\ pc' = "idle"
    /\ run' = IdleRun
    /\ new_features' = EmptyDF
    /\ last_run' = NoLastRun
    /\ ret' = [op |-> "crash"]
    /\ UNCHANGED << ml_vars, entity_vars, store_vars >>


\* -------------------------------------------- FeatureExtractionPipeline.run
\* a variant of FlushDue that waits for one row more
FlushLate(n, batch_size) == n > batch_size

\* if len(batch_features) >= batch_size
FlushDue(n, batch_size) == n >= batch_size

\* From the call to the first yield of the loop: skip set, counts, the no-op
\* path (metadata only), else the materialised iterator.
RunStart(target_kpi, client_filter, incremental, batch_size, include_ts) ==
    LET skip_ids == IF incremental
                    THEN get_processed_configs(processed_file) ELSE {}
        todo == SkipProcessed(SelectedConfigs(client_filter, FALSE), skip_ids)
        total == get_config_count(client_filter, skip_ids)
        locals == [IdleRun EXCEPT
                     !.active = TRUE, !.target_kpi = target_kpi,
                     !.client_filter = client_filter,
                     !.incremental = incremental, !.batch_size = batch_size,
                     !.include_ts = include_ts,
                     !.again = last_run.valid
                               /\ last_run.target_kpi = target_kpi
                               /\ last_run.client_filter = client_filter,
                     !.prev_incremental = last_run.incremental,
                     !.before_features = features_file,
                     !.before_processed = processed_file]
    IN /\ pc = "idle"
       /\ last_run' = NoLastRun
       /\ ret' = NoRet
       /\ IF total = 0
          THEN /\ metadata_file' =
                     save_metadata(features_file,
                                   ExtractorConfig(NoopInputSources), target_kpi)
               /\ list_file' = save_feature_list(features_file)
               /\ run' = [locals EXCEPT !.noop = TRUE]
               /\ pc' = "run_done"
          ELSE /\ \E order \in QueryOrders(todo) :
                     run' = [locals EXCEPT !.iterator = order]
               /\ pc' = "run_loop"
               /\ UNCHANGED << metadata_file, list_file >>
       /\ UNCHANGED << ml_vars, entity_vars, features_file, processed_file, new_features >>

\* One iteration of the loop, up to the batch-size test
RunExtract ==
    /\ pc = "run_loop"
    /\ run.iterator # <<>>
    /\ LET row == RowFeatures(Head(run.iterator), run.target_kpi, run.include_ts)
           batch == Append(run.batch_features, row)
       IN /\ run' = [run EXCEPT !.iterator = Tail(@),
                                !.batch_features = batch, !.n_done = @ + 1]
          /\ pc' = IF FlushDue(Len(batch), run.batch_size)
                   THEN "run_flush" ELSE "run_loop"
    /\ UNCHANGED << ml_vars, entity_vars, store_vars, new_features, last_run, ret >>

\* _save_batch, in the loop or after it: append_features up to save_features
RunSaveBatch ==
    /\ \/ pc = "run_flush"
       \/ pc = "run_loop" /\ run.iterator = <<>> /\ run.batch_features # <<>>
    /\ features_file' =
          save_features(CombineFeatures(load_features(features_file),
                                        DataFrame(run.batch_features)))
    /\ new_features' = DataFrame(run.batch_features)
    /\ pc' = "append_mark"
    /\ UNCHANGED << ml_vars, entity_vars, processed_file, metadata_file, list_file, run,
                    last_run, ret >>

\* after the loop and the final batch: save_metadata
RunSaveMetadata ==
    /\ pc = "run_loop"
    /\ run.iterator = <<>>
    /\ run.batch_features = <<>>
    /\ metadata_file' = save_metadata(features_file,
                                      ExtractorConfig(NormalInputSources),
                                      run.target_kpi)
    /\ list_file' = save_feature_list(features_file)
    /\ pc' = "run_done"
    /\ UNCHANGED << ml_vars, entity_vars, features_file, processed_file, run,
                    new_features, last_run, ret >>

\* return self.store.load_features()
RunReturn ==
    /\ pc = "run_done"
    /\ pc' = "idle"
    /\ ret' = [op |-> "run", df |-> load_features(features_file)]
    /\ last_run' = [valid |-> TRUE, target_kpi |-> run.target_kpi,
                    client_filter |-> run.client_filter,
                    incremental |-> run.incremental]
    /\ run' = IdleRun
    /\ UNCHANGED << ml_vars, entity_vars, store_vars, new_features >>

\* ------------------------------------------------ BenefitCalculator actions
GetBaselineForRun(run_id) ==
    /\ pc = "idle"
    /\ \E baseline \in get_baseline_for_run(run_id) :
          ret' = [op |-> "get_baseline_for_run", run_id |-> run_id,
                  baseline |-> baseline]
    /\ UNCHANGED << ml_vars, entity_vars, store_vars, pc, run, new_features, last_run >>

CalculateBenefitsForRun(client_name, run_name, include_baseline) ==
    /\ pc = "idle"
    /\ \E result \in calculate_benefits_for_run(client_name, run_name,
                                                include_baseline) :
          ret' = [op |-> "calculate_benefits_for_run",
                  client_name |-> client_name, run_name |-> run_name,
                  include_baseline |-> include_baseline,
                  raised |-> result.raised, rows |-> result.rows]
    /\ UNCHANGED << ml_vars, entity_vars, store_vars, pc, run, new_features, last_run >>

CalculateAllBenefits(client_name, include_baseline) ==
    /\ pc = "idle"
    /\ \E result \in calculate_all_benefits(client_name, include_baseline) :
          ret' = [op |-> "calculate_all_benefits",
                  client_name |-> client_name,
                  include_baseline |-> include_baseline,
                  raised |-> result.raised, rows |-> result.rows]
    /\ UNCHANGED << ml_vars, entity_vars, store_vars, pc, run, new_features, last_run >>

\* calculate_benefits_for_run while the reads of unreadable fail
CalculateBenefitsForRunReading(client_name, run_name, include_baseline, unreadable) ==
    /\ pc = "idle"
    /\ \E result \in calculate_benefits_for_run_reading(
                         client_name, run_name, include_baseline, unreadable) :
          ret' = [op |-> "calculate_benefits_for_run",
                  client_name |-> client_name, run_name |-> run_name,
                  include_baseline |-> include_baseline,
                  unreadable |-> unreadable,
                  raised |-> result.raised, rows |-> result.rows]
    /\ UNCHANGED << ml_vars, entity_vars, store_vars, pc, run, new_features, last_run >>

\* calculate_all_benefits while the reads of unreadable fail
CalculateAllBenefitsReading(client_name, include_baseline, unreadable) ==
    /\ pc = "idle"
    /\ \E result \in calculate_all_benefits_reading(client_name,
                                                     include_baseline,
                                                     unreadable) :
          ret' = [op |-> "calculate_all_benefits",
                  client_name |-> client_name,
                  include_baseline |-> include_baseline,
                  unreadable |-> unreadable,
                  raised |-> result.raised, rows |-> result.rows]
    /\ UNCHANGED << ml_vars, entity_vars, store_vars, pc, run, new_features, last_run >>

\* BenefitCalculator.save_benefits_as_kpis(benefits_df): without a
\* benefits_df it computes calculate_all_benefits(include_baseline=False)
SaveBenefitsAsKpis(benefits_df) ==
    /\ pc = "idle"
    /\ \E result \in (IF benefits_df = None
                       THEN calculate_all_benefits(None, FALSE)
                       ELSE {[raised |-> FALSE, rows |-> benefits_df[1]]}) :
          /\ kpi_summary' = IF result.raised THEN kpi_summary
                            ELSE save_benefits_as_kpis(kpi_summary, result.rows)
          /\ ret' = [op |-> "save_benefits_as_kpis", raised |-> result.raised,
                     rows |-> result.rows,
                     repeated |-> /\ ret.op = "save_benefits_as_kpis"
                                  /\ ret.rows = result.rows]
    /\ last_run' = IF kpi_summary' = kpi_summary THEN last_run ELSE NoLastRun
    /\ UNCHANGED << ml_vars, clients, runs, battery_configs, store_vars, pc, run,
                    new_features >>

\* list_all_features and extract_all_from_config on the same specs
ListAndExtract(df, column_specs, df_feature_names) ==
    /\ pc = "idle"
    /\ ret' = [op |-> "list_all_features", df |-> df,
               column_specs |-> column_specs,
               df_feature_names |-> df_feature_names,
               listed |-> list_all_features(column_specs, df_feature_names),
               extracted |-> ExtractAllFromConfig(df, column_specs,
                                                  df_feature_names)]
    /\ UNCHANGED << ml_vars, entity_vars, store_vars, pc, run, new_features, last_run >>

\* the guarded ratio aggregations on a series, called directly and through
\* extract_column_features
ExtractCustom(series, skip_if_empty) ==
    /\ pc = "idle"
    /\ ret' = [op |-> "custom_aggregations", series |-> series,
               skip_if_empty |-> skip_if_empty,
               peak_to_mean |-> CUSTOM_COLUMN_AGGREGATIONS("peak_to_mean", series),
               cv |-> CUSTOM_COLUMN_AGGREGATIONS("cv", series),
               features |->
                   ExtractColumnFeatures(
                       [cols |-> << "load_kwh" >>,
                        data |-> [c \in { "load_kwh" } |-> series]],
                       "load_kwh",
                       [stats |-> << >>, percentiles |-> << >>,
                        custom |-> << "peak_to_mean", "cv" >>,
                        skip_if_empty |-> skip_if_empty])]
    /\ UNCHANGED << ml_vars, entity_vars, store_vars, pc, run, new_features, last_run >>

\* BenefitCalculator.calculate_benefits on two KPI dicts
CalculateBenefits(baseline_kpis, battery_kpis) ==
    /\ pc = "idle"
    /\ ret' = [op |-> "calculate_benefits", baseline_kpis |-> baseline_kpis,
               battery_kpis |-> battery_kpis,
               benefits |-> calculate_benefits(baseline_kpis, battery_kpis)]
    /\ UNCHANGED << ml_vars, entity_vars, store_vars, pc, run, new_features, last_run >>

\* ------------------------------------------------- ModelRegistry actions
\* ModelRegistry.__init__
NewRegistry ==
    /\ pc = "idle"
    /\ models' = _load_registry(registry_file)
    /\ ret' = [op |-> "ModelRegistry"]
    /\ UNCHANGED << entity_vars, store_vars, pc, run, new_features, last_run,
                    registry_file, model_files, training >>

\* ModelRegistry.register_model
RegisterModel(target_name, model, metrics, hyperparameters, n_samples, n_features) ==
    LET clean_name == CleanName(target_name)
        registry == SetModel(models, clean_name,
                             ModelInfo(clean_name, model, metrics,
                                       hyperparameters, n_samples, n_features))
    IN /\ pc = "idle"
       /\ model_files' = SetModel(model_files, ModelPath(clean_name), model)
       /\ models' = registry
       /\ registry_file' = _save_registry(registry)
       /\ ret' = [op |-> "register_model", target_name |-> target_name,
                  metrics |-> metrics, before |-> models]
       /\ UNCHANGED << entity_vars, store_vars, pc, run, new_features,
                       last_run, training >>

\* ModelRegistry.clear
ClearRegistry ==
    /\ pc = "idle"
    /\ model_files' = [path \in DOMAIN model_files
                                \ {models[n].model_path : n \in DOMAIN models} |->
                         model_files[path]]
    /\ models' = << >>
    /\ registry_file' = NoRegistry
    /\ ret' = [op |-> "clear_registry"]
    /\ UNCHANGED << entity_vars, store_vars, pc, run, new_features, last_run,
                    training >>

\* ------------------------------------------------------- training actions
\* train_all_models up to its loop: prepare_data, groups, ModelRegistry()
TrainStart(group_aware) ==
    LET df == load_features(features_file)
    IN /\ pc = "idle"
       /\ IF DFEmpty(df)
          THEN /\ ret' = [op |-> "train_all_models", raised |-> TRUE]
               /\ UNCHANGED << pc, models, training >>
          ELSE /\ pc' = "train"
               /\ models' = _load_registry(registry_file)
               /\ training' = [i |-> 1, group_aware |-> group_aware,
                               groups |-> TrainingGroups(df, group_aware)]
               /\ ret' = NoRet
       /\ UNCHANGED << entity_vars, store_vars, run, new_features, last_run,
                       registry_file, model_files >>

\* one turn of the loop over TARGETS: train_single_model and register_model
TrainTarget ==
    LET df == load_features(features_file)
        target == TARGETS[training.i]
        clean == CleanRows(df, target)
        n_samples == Cardinality(clean)
        clean_name == CleanName(target)
    IN /\ pc = "train"
       /\ training.i <= Len(TARGETS)
       /\ IF ~HasCol(df, target)
          THEN \* y = df[target] raises KeyError out of train_all_models
               /\ pc' = "idle"
               /\ training' = IdleTraining
               /\ ret' = [op |-> "train_all_models", raised |-> TRUE]
               /\ UNCHANGED << models, registry_file, model_files >>
          ELSE IF n_samples < MinTargetValues
          THEN /\ training' = [training EXCEPT !.i = @ + 1]
               /\ ret' = [op |-> "skip_target", target |-> target]
               /\ UNCHANGED << pc, models, registry_file, model_files >>
          ELSE IF n_samples < MinSamples
          THEN \* the ValueError of train_single_model, caught by the loop
               /\ training' = [training EXCEPT !.i = @ + 1]
               /\ ret' = [op |-> "train_single_model", target |-> target,
                          raised |-> TRUE]
               /\ UNCHANGED << pc, models, registry_file, model_files >>
          ELSE \E split \in Splits(df, training.groups, target),
                  model \in ModelTypes(n_samples) :
                 LET registry ==
                       SetModel(models, clean_name,
                           ModelInfo(clean_name, model, [r2 |-> "r2"],
                               [model_type |-> model,
                                group_aware |-> training.groups # None],
                               NpInt(n_samples), PyInt(Len(FeatureCols(df)))))
                 IN /\ training' = [training EXCEPT !.i = @ + 1]
                    /\ model_files' = SetModel(model_files,
                                               ModelPath(clean_name), model)
                    /\ models' = registry
                    /\ registry_file' = _save_registry(registry)
                    /\ ret' = [op |-> "train_single_model",
                               target |-> target, raised |-> FALSE,
                               clean |-> clean,
                               use_group_split |->
                                   UseGroupSplit(df, training.groups, target),
                               train |-> split.train, test |-> split.test]
                    /\ pc' = pc
       /\ UNCHANGED << entity_vars, store_vars, run, new_features, last_run >>

\* train_all_models returns its registry
TrainReturn ==
    /\ pc = "train"
    /\ training.i > Len(TARGETS)
    /\ pc' = "idle"
    /\ training' = IdleTraining
    /\ ret' = [op |-> "train_all_models", raised |-> FALSE]
    /\ UNCHANGED << entity_vars, store_vars, run, new_features, last_run,
                    models, registry_file, model_files >>

\* ---------------------------------------------------------- specifications
\* the names under which successive imports add configurations
PipelineNames ==
    << <<"2", "5", "k", "W", "h">>, <<"b", "a", "t">>, <<"7", "k", "W", "h">>,
       <<"b", "i", "g">> >>

\* a referenced file that is missing, and one that can be read
PipelineTsPaths == { Some("gone.csv"), Some("a.csv") }

ClientFilters == { None, Some("A") }

TargetKpis == { "peak_shaving_benefit" }

TargetCols == { Col("target"), TargetCol("peak_shaving_benefit") }

Next ==
    \/ /\ Len(battery_configs) < MaxConfigs
       /\ \E run_id \in 1..Len(runs), is_baseline \in BOOLEAN, ts_path \in PipelineTsPaths :
             AddBatteryConfig(run_id, PipelineNames[Len(battery_configs) + 1],
                              is_baseline, Some(100), ts_path)
    \/ \E config_id \in ConfigIds, kpi_name \in TargetKpis, v \in 1..MaxKpiValue :
          /\ Cardinality(UpsertKpiRow(kpi_summary, config_id, kpi_name,
                                      Some(v), None)) <= MaxKpiRows
          /\ UpsertKpi(config_id, kpi_name, Some(v), None)
    \/ \E target_kpi \in TargetKpis, client_filter \in ClientFilters,
          incremental \in BOOLEAN, batch_size \in 1..MaxBatchSize :
          RunStart(target_kpi, client_filter, incremental, batch_size, TRUE)
    \/ RunExtract
    \/ RunSaveBatch
    \/ AppendFeaturesMark
    \/ RunSaveMetadata
    \/ RunReturn
    \/ \E target_col \in TargetCols : GetMlReadyData(target_col)
    \/ Crash

Spec == Init /\ [][Next]_vars

\* The Feature Store used on its own: batches of the shapes below, with the
\* distinct config ids every caller passes, a batch without config_id too.
StoreShapes ==
    { << Col("config_id"), Col("pv_annual_total"), Col("target") >>,
      << Col("config_id"), Col("pv_consumed_percentage") >>,
      << Col("pv_annual_total") >> }

StoreRecord(shape, config_id, v) ==
    [i \in 1..Len(shape) |->
        << shape[i],
           IF shape[i] = Col("config_id") THEN Some(config_id) ELSE Some(v) >>]

StoreRows ==
    UNION {{r \in [1..n -> (1..MaxConfigs) \X (1..MaxValue)] :
               \A i, j \in 1..n : i # j => r[i][1] # r[j][1]}
           : n \in 1..MaxBatchRows}

StoreBatches ==
    {DataFrame([i \in 1..Len(r) |-> StoreRecord(shape, r[i][1], r[i][2])]) :
        shape \in StoreShapes, r \in StoreRows}

NextStore ==
    \/ \E new \in StoreBatches :
          /\ Len(load_features(features_file).rows) + Len(new.rows) <= MaxStoreRows
          /\ AppendFeatures(new)
    \/ AppendFeaturesMark
    \/ \E target_kpi \in TargetKpis : SaveMetadata(target_kpi)
    \/ ClearFeatures
    \/ ClearProcessed
    \/ ClearMetadata
    \/ ClearList
    \/ Crash

SpecStore == Init /\ [][NextStore]_vars

\* The pipeline over a store that its public operations and crashes have
\* used before: one-row batches appended, a matrix saved over the old one,
\* clear, and a crash wherever a call is.
ExtractTables ==
    {DataFrame(<< StoreRecord(<< Col("config_id"), Col("pv_annual_total") >>, c, 1) >>) :
        c \in 1..MaxConfigs}

NextExtract ==
    \/ /\ Len(battery_configs) < MaxConfigs
       /\ \E run_id \in 1..Len(runs), is_baseline \in BOOLEAN :
             AddBatteryConfig(run_id, PipelineNames[Len(battery_configs) + 1],
                              is_baseline, Some(100), Some("a.csv"))
    \/ \E target_kpi \in TargetKpis, client_filter \in ClientFilters,
          incremental \in BOOLEAN, batch_size \in 1..MaxBatchSize :
          RunStart(target_kpi, client_filter, incremental, batch_size, TRUE)
    \/ RunExtract
    \/ RunSaveBatch
    \/ AppendFeaturesMark
    \/ RunSaveMetadata
    \/ RunReturn
    \/ \E new \in ExtractTables : AppendFeatures(new)
    \/ \E df \in ExtractTables : SaveFeatures(df)
    \/ ClearFeatures
    \/ ClearProcessed
    \/ ClearMetadata
    \/ ClearList
    \/ Crash

SpecExtract == Init /\ [][NextExtract]_vars

\* append_features alone, with a crash between its two writes; a batch may
\* also be a table of columns without rows.
AppendBatches ==
    StoreBatches \cup {[cols |-> shape, rows |-> << >>] : shape \in StoreShapes}

NextAppend ==
    \/ \E new \in AppendBatches :
          /\ Len(load_features(features_file).rows) + Len(new.rows) <= MaxStoreRows
          /\ AppendFeatures(new)
    \/ AppendFeaturesMark
    \/ Crash

SpecAppend == Init /\ [][NextAppend]_vars

\* The benefit calculator over an Entity Store that imports fill: a name of
\* the baseline vocabulary, a name with a "0" before " kWh", a name with
\* neither; capacity absent, zero, positive.
BenefitNames ==
    { << "b", "a", "s", "e", "l", "i", "n", "e" >>,
      << "1", "0", " ", "k", "W", "h" >>,
      << "b", "a", "t" >> }

BenefitCapacities == { None, Some(0), Some(50) }

BenefitKpis == { "annual_total_grid_fee_cost_ic" }

NextBenefit ==
    \/ /\ Len(battery_configs) < MaxBenefitConfigs
       /\ \E run_id \in 1..Len(runs), config_name \in BenefitNames,
             is_baseline \in BOOLEAN, capacity \in BenefitCapacities :
             AddBatteryConfig(run_id, config_name, is_baseline, capacity, None)
    \/ \E config_id \in ConfigIds, kpi_name \in BenefitKpis, v \in 1..MaxValue :
          UpsertKpi(config_id, kpi_name, Some(v), None)
    \/ \E run_id \in 1..Len(runs) : GetBaselineForRun(run_id)
    \/ \E client_name \in Range(clients), run_name \in {"r1", "r2"},
          include_baseline \in BOOLEAN :
          CalculateBenefitsForRun(client_name, run_name, include_baseline)
    \/ \E client_name \in ClientFilters, include_baseline \in BOOLEAN :
          CalculateAllBenefits(client_name, include_baseline)

SpecBenefit == Init /\ [][NextBenefit]_vars

\* Saving benefits: imports of configurations and of one input KPI, then
\* save_benefits_as_kpis, on its own result or on rows the caller holds.
SaveCapacities == { Some(0), Some(50) }

KpiFileRow(kpi_name, raw_value, kpi_unit) ==
    [kpi_name |-> kpi_name, raw_value |-> raw_value, kpi_unit |-> kpi_unit]

SaveKpiFiles ==
    LET name == Some("annual_total_grid_fee_cost_ic")
    IN { << >>,
         << << KpiFileRow(name, Some(1), Some("EUR")) >> >>,
         << << KpiFileRow(name, Some(MaxValue), None) >> >>,
         << << KpiFileRow(name, PyStr(None), Some("EUR")) >> >>,
         << << KpiFileRow(name, Some(MaxValue), Some("EUR")),
               KpiFileRow(None, Some(1), None),
               KpiFileRow(name, PyStr(Some(1)), Some("EUR/a")) >> >> }

HeldRows ==
    IF ret.op \in {"calculate_all_benefits", "save_benefits_as_kpis"}
    THEN {Some(ret.rows)} ELSE {}

NextSave ==
    \/ /\ Len(battery_configs) < MaxBenefitConfigs
       /\ \E run_id \in 1..Len(runs), is_baseline \in BOOLEAN,
             capacity \in SaveCapacities :
             AddBatteryConfig(run_id, PipelineNames[Len(battery_configs) + 1],
                              is_baseline, capacity, None)
    \/ \E config_id \in ConfigIds, kpi_file \in SaveKpiFiles :
          ImportKpisFromCsv(config_id, kpi_file)
    \/ CalculateAllBenefits(None, FALSE)
    \/ \E benefits_df \in {None} \cup HeldRows : SaveBenefitsAsKpis(benefits_df)

SpecSave == Init /\ [][NextSave]_vars

\* Benefit calculation while the KPI reads of some configurations fail.
NextReading ==
    \/ /\ Len(battery_configs) < MaxBenefitConfigs
       /\ \E run_id \in 1..Len(runs), is_baseline \in BOOLEAN,
             capacity \in SaveCapacities :
             AddBatteryConfig(run_id, PipelineNames[Len(battery_configs) + 1],
                              is_baseline, capacity, None)
    \/ \E config_id \in ConfigIds, kpi_name \in BenefitKpis, v \in 1..MaxValue :
          UpsertKpi(config_id, kpi_name, Some(v), None)
    \/ \E r \in 1..Len(runs), include_baseline \in BOOLEAN,
          unreadable \in SUBSET ConfigIds :
          CalculateBenefitsForRunReading(clients[runs[r].client_id],
                                         runs[r].run_name, include_baseline,
                                         unreadable)
    \/ \E include_baseline \in BOOLEAN, unreadable \in SUBSET ConfigIds :
          CalculateAllBenefitsReading(None, include_baseline, unreadable)

SpecReading == Init /\ [][NextReading]_vars

\* The importers and the add_* calls on a database that starts empty.
MaxImportConfigs == 2

ImportClients == { "A", "B" }

ImportRuns == { "r1" }

ImportParams == { None, Some("p") }

ImportNames == { << "0", "k", "W", "h" >>, << "2", "5", "k", "W", "h" >> }

ImportKpiFiles ==
    LET name == Some("annual_total_grid_fee_cost_ic")
    IN { << << KpiFileRow(name, Some(1), Some("EUR")) >> >>,
         << << KpiFileRow(name, Some(MaxValue), Some("EUR/a")) >> >> }

FolderEntry(config_name, kpi, ts) ==
    [config_name |-> config_name, kpi |-> kpi, ts |-> ts]

\* a run folder with one configuration, imported with either KPI file, and
\* one with a second configuration that has a timeseries file only
OutputFolders ==
    { << FolderEntry(<< "2", "5", "k", "W", "h" >>, kpi, None) >> :
         kpi \in ImportKpiFiles }
    \cup { << FolderEntry(<< "0", "k", "W", "h" >>, None, Some("a.csv")),
              FolderEntry(<< "2", "5", "k", "W", "h" >>,
                          << << KpiFileRow(Some("annual_total_grid_fee_cost_ic"),
                                           Some(MaxValue), Some("EUR/a")) >> >>,
                          None) >> }

\* the configurations a call would add to the run
NewConfigs(client_name, run_name, config_names) ==
    IF RunIdIn(DB, client_name, run_name) = None THEN config_names
    ELSE {n \in config_names :
             ConfigIdIn(DB, RunIdIn(DB, client_name, run_name)[1], n) = None}

FolderNames(output_folder) ==
    {output_folder[i].config_name : i \in 1..Len(output_folder)}

InitImport ==
    /\ clients = << >>
    /\ runs = << >>
    /\ battery_configs = << >>
    /\ kpi_summary = {}
    /\ features_file = NoFeatures
    /\ processed_file = NoProcessed
    /\ metadata_file = NoMetadata
    /\ list_file = NoList
    /\ pc = "idle"
    /\ run = IdleRun
    /\ new_features = EmptyDF
    /\ last_run = NoLastRun
    /\ ret = NoRet
    /\ models = << >>
    /\ registry_file = NoRegistry
    /\ model_files = << >>
    /\ training = IdleTraining

NextImport ==
    \/ \E client_name \in ImportClients : AddClient(client_name)
    \/ \E client_name \in ImportClients, run_name \in ImportRuns,
          input_parameters \in ImportParams :
          AddRun(client_name, run_name, input_parameters)
    \/ \E client_name \in ImportClients, run_name \in ImportRuns,
          config_name \in ImportNames :
          /\ Len(battery_configs)
               + Cardinality(NewConfigs(client_name, run_name, {config_name}))
             <= MaxImportConfigs
          /\ AddBatteryConfigNamed(client_name, run_name, config_name,
                                   FALSE, Some(50), None)
    \/ \E client_name \in ImportClients, run_name \in ImportRuns,
          output_folder \in OutputFolders :
          /\ Len(battery_configs)
               + Cardinality(NewConfigs(client_name, run_name,
                                        FolderNames(output_folder)))
             <= MaxImportConfigs
          /\ ScanAndImportFolder(client_name, run_name, None, output_folder)
    \/ \E client_name \in ImportClients, run_name \in ImportRuns,
          output_folder \in OutputFolders :
          /\ Len(battery_configs)
               + Cardinality(NewConfigs(client_name, run_name,
                                        FolderNames(output_folder)))
             <= MaxImportConfigs
          /\ GDriveImportAll(client_name, run_name, None, output_folder)

SpecImport == InitImport /\ [][NextImport]_vars

\* The three import paths on Output folders with a zero-capacity and a
\* positive-capacity configuration.
MaxFlagConfigs == 2

FlagFolders ==
    LET zero == << "0", "k", "W", "h" >>
        hundred == << "1", "0", "0", "k", "W", "h" >>
        kpi == << << KpiFileRow(Some("annual_total_grid_fee_cost_ic"),
                                Some(1), Some("EUR")) >> >>
    IN { << FolderEntry(zero, kpi, None) >>,
         << FolderEntry(hundred, kpi, None) >>,
         << FolderEntry(zero, None, Some("a.csv")),
            FolderEntry(hundred, kpi, None) >> }

NextFlag ==
    \/ \E client_name \in ImportClients, run_name \in ImportRuns,
          output_folder \in FlagFolders :
          /\ Len(battery_configs)
               + Cardinality(NewConfigs(client_name, run_name,
                                        FolderNames(output_folder)))
             <= MaxFlagConfigs
          /\ ImportOutputFiles(client_name, run_name, output_folder)
    \/ \E client_name \in ImportClients, run_name \in ImportRuns,
          output_folder \in FlagFolders :
          /\ Len(battery_configs)
               + Cardinality(NewConfigs(client_name, run_name,
                                        FolderNames(output_folder)))
             <= MaxFlagConfigs
          /\ ScanAndImportFolder(client_name, run_name, None, output_folder)
    \/ \E client_name \in ImportClients, run_name \in ImportRuns,
          output_folder \in FlagFolders :
          /\ Len(battery_configs)
               + Cardinality(NewConfigs(client_name, run_name,
                                        FolderNames(output_folder)))
             <= MaxFlagConfigs
          /\ GDriveImportAll(client_name, run_name, None, output_folder)

SpecFlag == InitImport /\ [][NextFlag]_vars

\* list_all_features against extract_all_from_config, one call per
\* behaviour, on a table that has every specified column, non-empty.
ColumnSpec(stats, percentiles, custom) ==
    [stats |-> stats, percentiles |-> percentiles, custom |-> custom,
     skip_if_empty |-> TRUE]

ListSpecs ==
    { ColumnSpec(stats, percentiles, custom) :
         stats \in { << >>, << "max" >>, << "sum", "max" >>, << "max", "nope" >> },
         percentiles \in { << >>, << 100 >>, << 0, 100 >> },
         custom \in { << >>, << "range" >>, << "nope" >> } }

ListColumnSpecs ==
    { << << "grid_export_kwh", spec >> >> : spec \in ListSpecs }
    \cup { << << "generation_kwh", ColumnSpec(<< "sum" >>, << >>, << >>) >>,
              << "grid_export_kwh", spec >> >> : spec \in ListSpecs }

ListDfFeatureNames ==
    { << >>, << "self_consumption_ratio" >>, << "nope" >>,
      << "self_consumption_ratio", "nope" >> }

\* the table with the columns of column_specs, two values each
ListTable(column_specs) ==
    [cols |-> [i \in 1..Len(column_specs) |-> column_specs[i][1]],
     data |-> [c \in {column_specs[i][1] : i \in 1..Len(column_specs)} |->
                 << 1, 3 >>]]

NextList ==
    /\ ret = NoRet
    /\ \E column_specs \in ListColumnSpecs,
          df_feature_names \in ListDfFeatureNames :
          ListAndExtract(ListTable(column_specs), column_specs,
                         df_feature_names)

SpecList == Init /\ [][NextList]_vars

\* Training and the registry on a stored feature matrix: rows of clients
\* "A", "B" and "C", each target present in the rows of some of the clients.
TrainCols ==
    << Col("config_id"), Col("client_name"), Col("list_battery_max_state") >>
    \o TARGETS

Rep(client, n) == [i \in 1..n |-> client]

\* the table with a row per entry of row_clients; has[t] are the clients whose
\* rows hold a value of TARGETS[t]
TrainTable(row_clients, has, with_client_name) ==
    [cols |-> IF with_client_name THEN TrainCols
              ELSE SelectSeq(TrainCols, LAMBDA c : c # Col("client_name")),
     rows |-> [i \in 1..Len(row_clients) |->
                 [c \in (IF with_client_name THEN Range(TrainCols)
                         ELSE Range(TrainCols) \ { Col("client_name") }) |->
                    IF c = Col("config_id") THEN Some(i)
                    ELSE IF c = Col("client_name") THEN Some(row_clients[i])
                    ELSE IF c = Col("list_battery_max_state") THEN Some(1)
                    ELSE IF \E t \in 1..Len(TARGETS) :
                               c = TARGETS[t] /\ row_clients[i] \in has[t]
                         THEN Some(1) ELSE None]]]

TrainTables ==
    { TrainTable(Rep("A", 9) \o Rep("B", 1),
                 << {"A", "B"}, {"A", "B"}, {"A", "B"} >>, TRUE),
      TrainTable(Rep("A", 10) \o Rep("B", 1),
                 << {"A"}, {"A", "B"}, {} >>, TRUE),
      TrainTable(Rep("A", 8) \o Rep("B", 1) \o Rep("C", 1),
                 << {"A", "B", "C"}, {"A", "B"}, {"A", "C"} >>, TRUE),
      TrainTable(Rep("A", 10), << {"A"}, {"A"}, {"A"} >>, TRUE),
      TrainTable(Rep("A", 6) \o Rep("B", 1),
                 << {"A", "B"}, {"A"}, {"B"} >>, TRUE),
      TrainTable(Rep("A", 9) \o Rep("B", 1),
                 << {"A", "B"}, {"A", "B"}, {"A", "B"} >>, FALSE) }

InitTrain ==
    /\ clients = << "A", "B" >>
    /\ runs = << [client_id |-> 1, run_name |-> "r1"],
                 [client_id |-> 2, run_name |-> "r2"] >>
    /\ battery_configs = << >>
    /\ kpi_summary = {}
    /\ features_file \in { NoFeatures } \cup { save_features(df) : df \in TrainTables }
    /\ processed_file = NoProcessed
    /\ metadata_file = NoMetadata
    /\ list_file = NoList
    /\ pc = "idle"
    /\ run = IdleRun
    /\ new_features = EmptyDF
    /\ last_run = NoLastRun
    /\ ret = NoRet
    /\ models = << >>
    /\ registry_file = NoRegistry
    /\ model_files = << >>
    /\ training = IdleTraining

\* the register_model calls made directly
RegisterNames ==
    { TargetCol("trading_revenue"), Col("trading_revenue"),
      TargetCol("peak_shaving_benefit") }

NextTrain ==
    \/ \E group_aware \in BOOLEAN : TrainStart(group_aware)
    \/ TrainTarget
    \/ TrainReturn
    \/ NewRegistry
    \/ \E target_name \in RegisterNames, r2 \in { "r2_a", "r2_b" } :
          RegisterModel(target_name, "Ridge", [r2 |-> r2],
                        [model_type |-> "Ridge", group_aware |-> FALSE],
                        NpInt(12), PyInt(0))
    \/ ClearRegistry

SpecTrain == InitTrain /\ [][NextTrain]_vars

\* The ratio aggregations on every series of up to MaxSeriesLen values
\* between -MaxSeriesValue and MaxSeriesValue, one call per behaviour.
MaxSeriesLen == 3

MaxSeriesValue == 2

GuardSeries ==
    UNION {[1..n -> (0 - MaxSeriesValue)..MaxSeriesValue] : n \in 0..MaxSeriesLen}

NextGuard ==
    /\ ret = NoRet
    /\ \E series \in GuardSeries, skip_if_empty \in BOOLEAN :
          ExtractCustom(series, skip_if_empty)

SpecGuard == Init /\ [][NextGuard]_vars

\* calculate_benefits on its own, one call per behaviour. The dicts hold the
\* four KPIs of the benefit definitions as numbers; a dict can have one of
\* them missing, None, False, a non-numeric or a numeric string, and can
\* hold one more KPI that no benefit uses.
CalcKpis ==
    { "annual_total_grid_fee_cost_ic", "annual_total_energy_trade_cost_da",
      "annual_total_energy_trade_cost_ia", "annual_total_energy_trade_cost_ic" }

OtherKpi == "annual_total_cost"

NumberDicts == [CalcKpis -> {Some(v) : v \in 1..MaxValue}]

OddValues == { None, PyFalse, PyStr(None), PyStr(Some(1)) }

OddDicts ==
    {[d EXCEPT ![k] = odd] : d \in NumberDicts, k \in CalcKpis, odd \in OddValues}
    \cup {[j \in CalcKpis \ {k} |-> d[j]] : d \in NumberDicts, k \in CalcKpis}

WithOther(d, v) ==
    [k \in DOMAIN d \cup {OtherKpi} |-> IF k = OtherKpi THEN Some(v) ELSE d[k]]

CalcInputs ==
    (NumberDicts \X NumberDicts)
    \cup {<< d, WithOther(e, v) >> :
             d \in NumberDicts, e \in NumberDicts, v \in 1..MaxValue}
    \cup (OddDicts \X NumberDicts)
    \cup (NumberDicts \X OddDicts)
    \cup {<< d, e >> \in OddDicts \X OddDicts :
             \A k \in DOMAIN d : Len(d[k]) = 1 => d[k] = Some(1)}

NextCalc ==
    /\ ret = NoRet
    /\ \E input \in CalcInputs : CalculateBenefits(input[1], input[2])

SpecCalc == Init /\ [][NextCalc]_vars


\* ------------------------------------------------------------------ claims
ConfigIdsOf(df) ==
    IF HasCol(df, Col("config_id"))
    THEN {df.rows[i][Col("config_id")] : i \in 1..Len(df.rows)} \ {None}
    ELSE {}

RowsOfId(df, id) ==
    {i \in 1..Len(df.rows) : HasCol(df, Col("config_id"))
                             /\ df.rows[i][Col("config_id")] = id}

OneRowPerId(df) == \A id \in ConfigIdsOf(df) : Cardinality(RowsOfId(df, id)) = 1

RowSet(df) == Range(df.rows)

\* C1: replace-by-id. The stored matrix never holds two rows with the same
\* config_id, and once append_features has saved a batch, every config id of
\* the batch has as its row the batch's row (the columns the batch lacks are
\* empty in it: the old row is replaced, not merged).
C1_ReplaceById ==
    /\ OneRowPerId(load_features(features_file))
    /\ pc = "append_mark"
       => \A i \in 1..Len(new_features.rows) :
             \A j \in RowsOfId(features_file.df,
                               new_features.rows[i][Col("config_id")]) :
                features_file.df.rows[j]
                  = Reindex(new_features.rows[i], features_file.df.cols)

C1_Witness ==
    /\ pc = "append_mark"
    /\ ~run.active
    /\ ret.op = "append_features_saved"
    /\ ret.replaced # {}
    /\ Range(features_file.df.cols) \ Range(new_features.cols) # {}
    /\ Len(features_file.df.rows) > Len(new_features.rows)

\* C5: clear is atomic. Whenever no call is in progress, the ledger lists no
\* config id unless the matrix file is there, and right after clear has
\* returned, matrix, ledger and metadata are all absent.
C5_ClearAtomic ==
    pc = "idle"
    => /\ get_processed_configs(processed_file) # {} => features_file.exists
       /\ ret.op = "clear"
          => /\ DFEmpty(load_features(features_file))
             /\ get_processed_configs(processed_file) = {}
             /\ ~metadata_file.exists

\* C2: incremental skip. When a run with incremental = true returns, and the
\* previous call was a run with the same target_kpi and client_filter that
\* returned, with the Entity Store and the store files untouched in between,
\* then this run processed no configuration, appended no batch, and the
\* feature matrix and the processed-id ledger are as they were at its start.
C2_IncrementalSkip ==
    (pc = "run_done" /\ run.again /\ run.incremental)
    => /\ run.n_done = 0
       /\ run.n_saved = 0
       /\ features_file = run.before_features
       /\ processed_file = run.before_processed

C2_Witness ==
    /\ pc = "run_done" /\ run.again /\ run.incremental
    /\ Len(features_file.df.rows) >= 2
    /\ Cardinality(processed_file.ids) >= 2

\* C3: idempotent re-extraction. When a run with incremental = false returns
\* right after another run with incremental = false over the same Entity
\* Store, target_kpi and client_filter (any two batch sizes), the matrix holds
\* the same set of rows, with the same values, as at its start, and exactly
\* one row per config id.
C3_IdempotentReextraction ==
    (pc = "run_done" /\ run.again /\ ~run.incremental /\ ~run.prev_incremental)
    => /\ RowSet(features_file.df) = RowSet(run.before_features.df)
       /\ Len(features_file.df.rows) = Len(run.before_features.df.rows)
       /\ OneRowPerId(features_file.df)

C3_Witness ==
    /\ pc = "run_done" /\ run.again /\ ~run.incremental /\ ~run.prev_incremental
    /\ run.n_done >= 2
    /\ run.n_saved >= 2

\* C4: batching bounds lost work. At every point of a run the rows extracted
\* and not yet handed over as saved are at most batch_size, and none is left
\* when the run returns.
C4_BatchBound ==
    /\ run.active => Len(run.batch_features) <= run.batch_size
    /\ pc = "run_done" => Len(run.batch_features) = 0

C4_Witness ==
    /\ pc = "run_flush"
    /\ run.batch_size >= 2
    /\ Len(run.batch_features) = run.batch_size

TARGET_COLUMNS ==
    {Col("target")} \cup {TargetCol(KPI_TARGETS[i]) : i \in 1..Len(KPI_TARGETS)}

\* C6: get_ml_ready_data returns no identifier column and no target column
\* (neither target nor any target_<kpi>) among the features, whatever the
\* target_col.
C6_NoIdOrTargetInX ==
    (ret.op = "get_ml_ready_data" /\ ~ret.raised)
    => /\ Range(ret.X) \cap (ID_COLUMNS \cup TARGET_COLUMNS) = {}
       /\ Range(ret.feature_cols) \cap (ID_COLUMNS \cup TARGET_COLUMNS) = {}

IsSortedCols(cols) ==
    \A i, j \in 1..Len(cols) :
        i < j => \E a, b \in 1..Len(AllColsSorted) :
                    a < b /\ AllColsSorted[a] = cols[i] /\ AllColsSorted[b] = cols[j]

\* C7: when a run returns, on the no-op path as on the normal path, the
\* metadata file exists, its feature_columns are the matrix's columns without
\* the identifiers, target and every target_* column, in sorted order, and
\* the recorded input sources and extractor names are those both paths write.
C7_MetadataAfterRun ==
    pc = "run_done"
    => /\ metadata_file.exists
       /\ Range(metadata_file.feature_columns)
            = Range(load_features(features_file).cols)
              \ (ID_COLUMNS \cup TARGET_COLUMNS)
       /\ IsSortedCols(metadata_file.feature_columns)
       /\ metadata_file.extractor_config.input_sources = NoopInputSources
       /\ metadata_file.extractor_config.input_sources = NormalInputSources
       /\ metadata_file.extractor_config.ts_extractors = << "ts" >>

C7_Witness ==
    /\ pc = "run_done"
    /\ run.noop
    /\ Len(metadata_file.feature_columns) > Len(DIRECT_INPUT_NAMES)

Flagged(run_id) == {c \in RunConfigs(run_id) : battery_configs[c].is_baseline}

\* C8: flag-first baseline. For a run with a flagged configuration,
\* get_baseline_for_run returns the lowest config id among the flagged ones,
\* whatever the capacities and names in the run.
C8_FlagFirst ==
    (ret.op = "get_baseline_for_run" /\ Flagged(ret.run_id) # {})
    => /\ ret.baseline # None
       /\ ret.baseline[1] \in Flagged(ret.run_id)
       /\ \A c \in Flagged(ret.run_id) : ret.baseline[1] <= c

C8_Witness ==
    /\ ret.op = "get_baseline_for_run"
    /\ Cardinality(Flagged(ret.run_id)) >= 2
    /\ battery_configs[ret.baseline[1]].battery_capacity_kwh = Some(50)
    /\ \E c \in Flagged(ret.run_id) :
          battery_configs[c].battery_capacity_kwh = None

\* case-insensitive substring or equality against the vocabulary
VocabularyMatch(config_name) ==
    \E part \in BASELINE_NAMES : Contains(LOWER(config_name), part)

FallbackCandidates(run_id) ==
    {c \in RunConfigs(run_id) :
        \/ battery_configs[c].battery_capacity_kwh \in {None, Some(0)}
        \/ VocabularyMatch(battery_configs[c].config_name)}

\* C9: baseline fallback. For a run without a flagged configuration,
\* get_baseline_for_run returns, among the configurations with capacity 0 or
\* absent or a name matching the vocabulary, the one with the smallest
\* capacity (absent first) and, among equal capacities, the smallest id.
C9_Fallback ==
    (ret.op = "get_baseline_for_run" /\ Flagged(ret.run_id) = {}
     /\ FallbackCandidates(ret.run_id) # {})
    => /\ ret.baseline # None
       /\ ret.baseline[1] \in FallbackCandidates(ret.run_id)
       /\ \A c \in FallbackCandidates(ret.run_id) :
             /\ ~CapacityBefore(c, ret.baseline[1])
             /\ CapacityBefore(ret.baseline[1], c) \/ ret.baseline[1] <= c

Unresolved(run_id) == Flagged(run_id) = {} /\ FallbackCandidates(run_id) = {}

RECURSIVE ConcatResults(_, _)
ConcatResults(todo, include_baseline) ==
    IF todo = <<>> THEN {<<>>}
    ELSE {head.rows \o tail :
            head \in calculate_benefits_for_run(
                        clients[runs[Head(todo)].client_id],
                        runs[Head(todo)].run_name, include_baseline),
            tail \in ConcatResults(Tail(todo), include_baseline)}

\* C10: an unresolved baseline is skipped. For a run with no flagged
\* configuration, none of capacity 0 or absent and none of a vocabulary name,
\* calculate_benefits_for_run returns an empty result and raises nothing, and
\* calculate_all_benefits raises nothing and returns the concatenation, in
\* run order, of the results of the other runs.
C10_UnresolvedSkipped ==
    /\ (/\ ret.op = "calculate_benefits_for_run"
        /\ get_run_id(ret.client_name, ret.run_name) # None
        /\ Unresolved(get_run_id(ret.client_name, ret.run_name)[1]))
       => ~ret.raised /\ ret.rows = <<>>
    /\ ret.op = "calculate_all_benefits"
       => /\ ~ret.raised
          /\ ret.rows \in ConcatResults(
                 SelectSeq(get_runs(ret.client_name),
                           LAMBDA r : ~Unresolved(r)),
                 ret.include_baseline)

C10_Witness ==
    /\ ret.op = "calculate_all_benefits"
    /\ ret.client_name = None
    /\ Len(ret.rows) > 0
    /\ \E r \in 1..Len(runs) : Unresolved(r) /\ RunConfigs(r) # {}

RowsOfConfig(rows, config_id) ==
    {i \in 1..Len(rows) : rows[i].config_id = config_id}

\* C11: baseline benefit = 0. When calculate_benefits_for_run is called with
\* include_baseline = true, every flagged configuration of the run has one
\* row, and its three benefits are 0, whatever KPI values are stored.
C11_BaselineBenefitZero ==
    (/\ ret.op = "calculate_benefits_for_run"
     /\ ret.include_baseline
     /\ get_run_id(ret.client_name, ret.run_name) # None)
    => \A c \in Flagged(get_run_id(ret.client_name, ret.run_name)[1]) :
          /\ Cardinality(RowsOfConfig(ret.rows, c)) = 1
          /\ \A i \in RowsOfConfig(ret.rows, c) :
                ret.rows[i].benefits = << Some(0), Some(0), Some(0) >>

C11_Witness ==
    /\ ret.op = "calculate_benefits_for_run"
    /\ ret.include_baseline
    /\ \E i \in 1..Len(ret.rows) :
          /\ ret.rows[i].is_baseline
          /\ ret.rows[i].config_id # ret.rows[i].baseline_config_id
          /\ KpiGet(ret.rows[i].config_id, "annual_total_grid_fee_cost_ic") # None
          /\ KpiGet(ret.rows[i].baseline_config_id,
                    "annual_total_grid_fee_cost_ic") # None
          /\ KpiGet(ret.rows[i].config_id, "annual_total_grid_fee_cost_ic")
             # KpiGet(ret.rows[i].baseline_config_id,
                      "annual_total_grid_fee_cost_ic")

NumberOf(kpis, kpi_name) == kpis[kpi_name][1]

\* C12: benefit formulas. With the four KPIs numbers on both sides,
\* peak_shaving_benefit is baseline - battery of annual_total_grid_fee_cost_ic,
\* energy_procurement_optimization that of annual_total_energy_trade_cost_da,
\* trading_revenue the sum of those of annual_total_energy_trade_cost_ia and
\* annual_total_energy_trade_cost_ic; no other KPI has a part in them.
C12_BenefitFormulas ==
    (/\ ret.op = "calculate_benefits"
     /\ \A k \in CalcKpis :
           /\ k \in DOMAIN ret.baseline_kpis /\ Len(ret.baseline_kpis[k]) = 1
           /\ k \in DOMAIN ret.battery_kpis /\ Len(ret.battery_kpis[k]) = 1)
    => ret.benefits =
         << Some(NumberOf(ret.baseline_kpis, "annual_total_grid_fee_cost_ic")
                 - NumberOf(ret.battery_kpis, "annual_total_grid_fee_cost_ic")),
            Some(NumberOf(ret.baseline_kpis, "annual_total_energy_trade_cost_da")
                 - NumberOf(ret.battery_kpis, "annual_total_energy_trade_cost_da")),
            Some((NumberOf(ret.baseline_kpis, "annual_total_energy_trade_cost_ia")
                  - NumberOf(ret.battery_kpis, "annual_total_energy_trade_cost_ia"))
                 + (NumberOf(ret.baseline_kpis, "annual_total_energy_trade_cost_ic")
                    - NumberOf(ret.battery_kpis,
                               "annual_total_energy_trade_cost_ic"))) >>

C12_Witness ==
    /\ ret.op = "calculate_benefits"
    /\ OtherKpi \in DOMAIN ret.battery_kpis
    /\ ret.benefits = << Some(1), Some(0 - 1), Some(2) >>

\* missing, None/NaN, the False sentinel, or a string float() rejects
InvalidKpi(kpis, kpi_name) ==
    \/ kpi_name \notin DOMAIN kpis
    \/ Len(kpis[kpi_name]) = 0
    \/ Len(kpis[kpi_name]) = 2 /\ kpis[kpi_name][1] = "bool"
    \/ Len(kpis[kpi_name]) = 2 /\ kpis[kpi_name][1] = "str"
       /\ Len(kpis[kpi_name][2]) = 0

BenefitKpiSets ==
    << { "annual_total_grid_fee_cost_ic" },
       { "annual_total_energy_trade_cost_da" },
       { "annual_total_energy_trade_cost_ia",
         "annual_total_energy_trade_cost_ic" } >>

\* C13: NaN propagation. A benefit is NaN exactly when one of its KPIs is
\* missing, None, False or a non-numeric string on the baseline or the
\* battery side; the other benefits are still numbers, and trading_revenue
\* is NaN as soon as one of its two KPIs is invalid on one side.
C13_NaNPropagation ==
    ret.op = "calculate_benefits"
    => \A i \in 1..3 :
          (ret.benefits[i] = None)
          <=> \E k \in BenefitKpiSets[i] :
                 \/ InvalidKpi(ret.baseline_kpis, k)
                 \/ InvalidKpi(ret.battery_kpis, k)

C13_Witness ==
    /\ ret.op = "calculate_benefits"
    /\ InvalidKpi(ret.battery_kpis, "annual_total_energy_trade_cost_ia")
    /\ ret.baseline_kpis \in NumberDicts
    /\ "annual_total_energy_trade_cost_ic" \in DOMAIN ret.battery_kpis
    /\ Len(ret.battery_kpis["annual_total_energy_trade_cost_ic"]) = 1
    /\ NumberOf(ret.baseline_kpis, "annual_total_energy_trade_cost_ic")
       # NumberOf(ret.battery_kpis, "annual_total_energy_trade_cost_ic")
    /\ ret.benefits[3] = None
    /\ ret.benefits[1] # None
    /\ ret.benefits[2] # None

KpiRows(table, config_id, kpi_name) ==
    {k \in table : k.config_id = config_id /\ k.kpi_name = kpi_name}

\* C14: no NaN KPI row. A step of save_benefits_as_kpis leaves the rows of
\* every (config, benefit) whose benefit is NaN as they were, writes for
\* every other (config, benefit) the one row with its value and the unit
\* EUR/year, and no stored benefit has a NaN value.
C14_NoNaNRow ==
    [][(ret'.op = "save_benefits_as_kpis" /\ ~ret'.raised)
       => \A i \in 1..Len(ret'.rows), j \in 1..Len(BENEFIT_DEFINITIONS) :
             LET c == ret'.rows[i].config_id
                 name == BENEFIT_DEFINITIONS[j][1]
             IN IF ret'.rows[i].benefits[j] = None
                THEN KpiRows(kpi_summary', c, name) = KpiRows(kpi_summary, c, name)
                ELSE KpiRows(kpi_summary', c, name)
                     = {[config_id |-> c, kpi_name |-> name,
                         kpi_value |-> ret'.rows[i].benefits[j],
                         kpi_unit |-> Some("EUR/year")]}]_vars

C14_Witness ==
    /\ ret.op = "save_benefits_as_kpis"
    /\ \E i \in 1..Len(ret.rows) :
          /\ ret.rows[i].benefits[1] = Some(1)
          /\ ret.rows[i].benefits[3] = None
          /\ KpiRows(kpi_summary, ret.rows[i].config_id, "trading_revenue") = {}
          /\ KpiRows(kpi_summary, ret.rows[i].config_id, "peak_shaving_benefit")
             # {}

\* the last row of a KPI file that writes kpi_name
LastWrite(rows, i) ==
    /\ rows[i].kpi_name # << >>
    /\ ImportValue(rows[i].raw_value) # << >>
    /\ \A j \in (i + 1)..Len(rows) :
          \/ rows[j].kpi_name # rows[i].kpi_name
          \/ ImportValue(rows[j].raw_value) = << >>

\* C15: KPI rows are unique per (config_id, kpi_name); after an import each
\* name the file writes holds the value and unit of its last writing row;
\* after save_benefits_as_kpis, saving the same rows again changes nothing.
C15_KpiUnique ==
    /\ \A k1 \in kpi_summary, k2 \in kpi_summary :
          (k1.config_id = k2.config_id /\ k1.kpi_name = k2.kpi_name) => k1 = k2
    /\ (ret.op = "import_kpis_from_csv" /\ ret.kpi_file # << >>)
       => \A i \in 1..Len(ret.kpi_file[1]) :
             LastWrite(ret.kpi_file[1], i)
             => KpiRows(kpi_summary, ret.config_id, ret.kpi_file[1][i].kpi_name[1])
                = {[config_id |-> ret.config_id,
                    kpi_name |-> ret.kpi_file[1][i].kpi_name[1],
                    kpi_value |-> ImportValue(ret.kpi_file[1][i].raw_value),
                    kpi_unit |-> ret.kpi_file[1][i].kpi_unit]}
    /\ (ret.op = "save_benefits_as_kpis" /\ ~ret.raised)
       => save_benefits_as_kpis(kpi_summary, ret.rows) = kpi_summary

C15_Witness ==
    /\ ret.op = "save_benefits_as_kpis"
    /\ ret.repeated
    /\ \E i \in 1..Len(ret.rows) :
          /\ ret.rows[i].benefits[1] = Some(MaxValue - 1)
          /\ [config_id |-> ret.rows[i].config_id,
              kpi_name |-> "annual_total_grid_fee_cost_ic",
              kpi_value |-> Some(1), kpi_unit |-> Some("EUR/a")] \in kpi_summary
          /\ [config_id |-> ret.rows[i].config_id,
              kpi_name |-> "peak_shaving_benefit",
              kpi_value |-> Some(MaxValue - 1), kpi_unit |-> Some("EUR/year")]
             \in kpi_summary

\* C16: re-import upserts KPIs. After scan_and_import_folder or import_all
\* over a run folder, every configuration of the folder that already
\* existed holds, for each KPI name its file writes, the value and unit of
\* the file.
C16_ReimportUpserts ==
    ret.op \in {"scan_and_import_folder", "import_all"}
    => \A i \in ret.reimported :
          LET entry == ret.output_folder[i]
              config_id == ConfigIdIn(DB, ret.run_id, entry.config_name)[1]
          IN entry.kpi # << >>
             => \A j \in 1..Len(entry.kpi[1]) :
                   LastWrite(entry.kpi[1], j)
                   => KpiRows(kpi_summary, config_id, entry.kpi[1][j].kpi_name[1])
                      = {[config_id |-> config_id,
                          kpi_name |-> entry.kpi[1][j].kpi_name[1],
                          kpi_value |-> ImportValue(entry.kpi[1][j].raw_value),
                          kpi_unit |-> entry.kpi[1][j].kpi_unit]}

\* the table an add_* call writes
TableOf(op) ==
    IF op = "add_client" THEN clients
    ELSE IF op = "add_run" THEN runs ELSE battery_configs

\* C17: there is one client per client_name, one run per (client,
\* run_name) and one configuration per (run, config_name); an add_client,
\* add_run or add_battery_config call returns an id, and if its natural key
\* existed, the id of that row, which is stored as it was.
C17_NaturalKeys ==
    /\ \A i \in 1..Len(clients), j \in 1..Len(clients) :
          clients[i] = clients[j] => i = j
    /\ \A i \in 1..Len(runs), j \in 1..Len(runs) :
          (runs[i].client_id = runs[j].client_id
           /\ runs[i].run_name = runs[j].run_name) => i = j
    /\ \A i \in ConfigIds, j \in ConfigIds :
          (battery_configs[i].run_id = battery_configs[j].run_id
           /\ battery_configs[i].config_name = battery_configs[j].config_name)
          => i = j
    /\ ret.op \in {"add_client", "add_run", "add_battery_config"}
       => /\ ret.id # None
          /\ ret.before # None
             => /\ ret.id = Some(ret.before[1].id)
                /\ TableOf(ret.op)[ret.before[1].id] = ret.before[1].row

C17_Witness ==
    /\ ret.op = "add_battery_config"
    /\ ret.before # None
    /\ ret.before[1].id = 2
    /\ ret.before[1].row.battery_capacity_kwh = Some(25)
    /\ \E r \in 1..Len(runs) : runs[r].input_parameters = Some("p")

\* the configurations the run in progress iterates over
RunTodo ==
    SkipProcessed(SelectedConfigs(run.client_filter, FALSE),
                  IF run.incremental
                  THEN get_processed_configs(run.before_processed) ELSE {})

\* the configuration names no timeseries file, or one that is not there
MissingTs(c) ==
    \/ battery_configs[c].timeseries_file_path = None
    \/ FileSystem(battery_configs[c].timeseries_file_path[1]) = None

\* C18: a missing timeseries file is not fatal. When the loop of a run is
\* over, every configuration it iterated has exactly one row, with its
\* identifiers, direct inputs, targets and primary target; the row of a
\* configuration whose file is missing has no ts__ value, and the row of
\* every other configuration has all the features of its own file.
C18_MissingTimeseries ==
    (pc = "run_done" /\ ~run.noop)
    => \A c \in RunTodo :
          /\ Cardinality(RowsOfId(features_file.df, Some(c))) = 1
          /\ \A i \in RowsOfId(features_file.df, Some(c)) :
                LET df == features_file.df
                    path == battery_configs[c].timeseries_file_path
                IN /\ df.rows[i][Col("client_name")] = Some(ClientNameOf(c))
                   /\ df.rows[i][Col("run_name")] = Some(RunNameOf(c))
                   /\ df.rows[i][Col("config_name")]
                      = Some(battery_configs[c].config_name)
                   /\ \A k \in 1..Len(DIRECT_INPUT_NAMES) :
                         df.rows[i][Col(DIRECT_INPUT_NAMES[k])]
                         = KpiGet(c, DIRECT_INPUT_NAMES[k])
                   /\ \A k \in 1..Len(KPI_TARGETS) :
                         df.rows[i][TargetCol(KPI_TARGETS[k])]
                         = KpiGet(c, KPI_TARGETS[k])
                   /\ df.rows[i][Col("target")] = KpiGet(c, run.target_kpi)
                   /\ IF MissingTs(c)
                      THEN \A col \in Range(df.cols) :
                              StartsWith(col, "ts") => df.rows[i][col] = None
                      ELSE \A f \in Range(extract_all(FileSystem(path[1])[1])) :
                              HasCol(df, f[1]) /\ df.rows[i][f[1]] = f[2]

C18_Witness ==
    /\ pc = "run_done"
    /\ ~run.noop
    /\ run.n_done = 2
    /\ \E c \in RunTodo, d \in RunTodo :
          /\ MissingTs(c)
          /\ ~MissingTs(d)
          /\ \E col \in Range(features_file.df.cols), i \in RowsOfId(features_file.df, Some(d)) :
                /\ StartsWith(col, "ts")
                /\ features_file.df.rows[i][col] # None

\* the rows a call returns when every read succeeds
ReadableResults ==
    IF ret.op = "calculate_benefits_for_run"
    THEN calculate_benefits_for_run(ret.client_name, ret.run_name,
                                    ret.include_baseline)
    ELSE calculate_all_benefits(ret.client_name, ret.include_baseline)

\* C19: the failure of one configuration does not abort. When the KPI reads
\* of some configurations fail, calculate_benefits_for_run and
\* calculate_all_benefits raise nothing and return the rows of every
\* configuration whose own read and whose baseline's read succeed.
C19_FailureIsolated ==
    ret.op \in {"calculate_benefits_for_run", "calculate_all_benefits"}
    => /\ ~ret.raised
       /\ \E result \in ReadableResults :
             \A i \in 1..Len(result.rows) :
                (/\ result.rows[i].config_id \notin ret.unreadable
                 /\ result.rows[i].baseline_config_id \notin ret.unreadable)
                => result.rows[i] \in Range(ret.rows)

ListedSet ==
    Range(ret.listed.column_features) \cup Range(ret.listed.custom_features)

ExtractedKeys == Range(DictKeys(ret.extracted))

\* the names a registry does not know
UnknownNames ==
    UNION {{<< ret.column_specs[i][1], "_", n >> :
               n \in (Range(ret.column_specs[i][2].stats)
                      \ STAT_FUNCTION_NAMES)
                     \cup (Range(ret.column_specs[i][2].custom)
                           \ CUSTOM_COLUMN_AGGREGATION_NAMES)} :
             i \in 1..Len(ret.column_specs)}
    \cup {<< n >> : n \in Range(ret.df_feature_names) \ CUSTOM_DF_FEATURE_NAMES}

\* C20: listing matches extraction. On a table that has every specified
\* column non-empty, the names list_all_features enumerates are the keys
\* extract_all_from_config produces, total is their number, and a name no
\* registry knows is in neither.
C20_ListingMatches ==
    ret.op = "list_all_features"
    => /\ ListedSet = ExtractedKeys
       /\ ret.listed.total = Cardinality(ExtractedKeys)
       /\ UnknownNames \cap (ListedSet \cup ExtractedKeys) = {}

\* C21: guarded ratio aggregations. On a series whose mean is at most 0, cv
\* and peak_to_mean are exactly 0, called directly or through
\* extract_column_features: not NaN, not infinity, no exception.
C21_GuardedRatios ==
    (/\ ret.op = "custom_aggregations"
     /\ ret.series # << >>
     /\ SeqSum(ret.series) <= 0)
    => /\ ret.peak_to_mean = Some(Zero)
       /\ ret.cv = Some(Zero)
       /\ ret.features = << << << "load_kwh", "_", "peak_to_mean" >>, Some(Zero) >>,
                            << << "load_kwh", "_", "cv" >>, Some(Zero) >> >>

C21_Witness ==
    /\ ret.op = "custom_aggregations"
    /\ ret.series = << 0, 0, 0 >>
    /\ ret.peak_to_mean = Some(Zero)

\* the clients of a set of rows of the stored matrix
SplitClients(rows) ==
    IF HasCol(load_features(features_file), Col("client_name"))
    THEN GroupsOf(load_features(features_file), rows) ELSE {}

Trained == ret.op = "train_single_model" /\ ~ret.raised

\* C22 as stated: whenever the rows with a target value carry at least 2
\* distinct clients, the train and test sides of train_single_model share no
\* client.
C22_NoSharedClient ==
    (Trained /\ Cardinality(SplitClients(ret.clean)) >= 2)
    => SplitClients(ret.train) \cap SplitClients(ret.test) = {}

\* C22: group-aware split, where train_all_models was asked for it: whenever
\* group_aware is set and the rows with a target value carry at least 2
\* distinct clients, the train and test sides share no client.
C22_GroupAwareSplit ==
    (/\ Trained
     /\ training.group_aware
     /\ Cardinality(SplitClients(ret.clean)) >= 2)
    => SplitClients(ret.train) \cap SplitClients(ret.test) = {}

C22_Witness ==
    /\ Trained
    /\ training.group_aware
    /\ Cardinality(SplitClients(ret.clean)) >= 3
    /\ ret.use_group_split
    /\ ret.train # {}
    /\ ret.test # {}

Registered == ret.op = "register_model" \/ Trained

\* C23: one entry per target. After register_model the registry has one
\* entry under the cleaned name, with or without the target_ prefix in the
\* call, that entry is the one just registered, the other entries are kept, and
\* registry.json holds the registry in memory.
C23_OneEntryPerTarget ==
    /\ ret.op = "register_model"
       => /\ DOMAIN models = DOMAIN ret.before \cup { CleanName(ret.target_name) }
          /\ models[CleanName(ret.target_name)].r2_score = ret.metrics.r2
          /\ \A n \in DOMAIN ret.before \ { CleanName(ret.target_name) } :
                models[n] = ret.before[n]
    /\ Registered
       => /\ \A n \in DOMAIN models :
                models[n].target_name = n /\ "target_" \notin Range(n)
          /\ registry_file # NoRegistry
          /\ _load_registry(registry_file)
               = [n \in DOMAIN models |-> InfoJson(models[n])]

C23_Witness ==
    /\ ret.op = "register_model"
    /\ ret.target_name = Col("trading_revenue")
    /\ Col("trading_revenue") \in DOMAIN ret.before
    /\ ret.before[Col("trading_revenue")].r2_score # ret.metrics.r2
    /\ Cardinality(DOMAIN models) = 2

\* C26: the recorded split strategy is truthful. The group_aware flag that
\* train_all_models registers for a target is true exactly when
\* train_single_model used the group-aware split for it.
C26_TruthfulFlag ==
    Trained
    => (models[CleanName(ret.target)].hyperparameters.group_aware
          <=> ret.use_group_split)

\* C24: no partial credit in the ledger. In every state that append_features
\* reaches, between its two writes and after a crash there too, every config
\* id of processed_configs.json has a row in the stored matrix.
C24_NoPartialCredit ==
    \A id \in get_processed_configs(processed_file) :
       Some(id) \in ConfigIdsOf(load_features(features_file))

C24_Witness ==
    /\ ret.op = "crash"
    /\ get_processed_configs(processed_file) # {}
    /\ \E v \in ConfigIdsOf(load_features(features_file)) :
          v[1] \notin get_processed_configs(processed_file)

StoredCols == Range(load_features(features_file).cols)

ImportReturned ==
    ret.op \in { "_import_output_files", "scan_and_import_folder", "import_all" }

FlaggedConfigs(run_id) ==
    {c \in RunConfigs(run_id) : battery_configs[c].is_baseline}

PositiveCapacityName(config_name) ==
    /\ _parse_battery_specs(config_name) # None
    /\ _parse_battery_specs(config_name)[1] > 0

\* C27: one baseline per imported run. After an Output folder was imported
\* through any of the three paths, at most one configuration of the run is
\* flagged is_baseline, no configuration whose name holds a positive capacity
\* is flagged, and the three paths flag the same names.
C27_OneBaseline ==
    ImportReturned
    => /\ Cardinality(FlaggedConfigs(ret.run_id)) <= 1
       /\ \A c \in FlaggedConfigs(ret.run_id) :
             ~PositiveCapacityName(battery_configs[c].config_name)
       /\ \A n \in FolderNames(ret.output_folder) :
             /\ IsBaselineContains(n) = IsBaselineDirect(n)
             /\ IsBaselineDirect(n) = _is_baseline(n)

\* C28: the baseline is not compared with itself. With include_baseline
\* false no row of calculate_benefits_for_run is the row of the configuration
\* that was resolved as the baseline, by its flag or by the fallback.
C28_BaselineExcluded ==
    (/\ ret.op = "calculate_benefits_for_run"
     /\ ~ret.include_baseline
     /\ ~ret.raised)
    => \A i \in 1..Len(ret.rows) :
          ret.rows[i].config_id # ret.rows[i].baseline_config_id

\* C29: extraction is complete on return. When run is about to return, in
\* either mode and whatever the store went through before, every non-baseline
\* configuration the client filter selects has exactly one row in the stored
\* matrix.
C29_CompleteOnReturn ==
    pc = "run_done"
    => \A c \in SelectedConfigs(run.client_filter, FALSE) :
          Cardinality(RowsOfId(load_features(features_file), Some(c))) = 1

\* C30: stored benefits track the current computation. After
\* save_benefits_as_kpis on the result of calculate_all_benefits, for every
\* row of a configuration that is not the baseline and for each benefit,
\* kpi_summary holds a row of that benefit exactly when the computed benefit
\* is a number, and then with its value.
C30_StoredTracksComputed ==
    (ret.op = "save_benefits_as_kpis" /\ ~ret.raised)
    => \A i \in 1..Len(ret.rows), j \in 1..Len(BENEFIT_DEFINITIONS) :
          LET c == ret.rows[i].config_id
              name == BENEFIT_DEFINITIONS[j][1]
          IN (~ret.rows[i].is_baseline /\ c # ret.rows[i].baseline_config_id)
             => /\ (KpiRows(kpi_summary, c, name) # {})
                   <=> (ret.rows[i].benefits[j] # None)
                /\ \A r \in KpiRows(kpi_summary, c, name) :
                      r.kpi_value = ret.rows[i].benefits[j]

=============================================================================
